---- MODULE Spec2Model ----
(***************************************************************************)
(* Raydium new-pools listener: the paper ledger (paper_trading.py), the    *)
(* listener that drives it (test_websocket_listener.py), the trading       *)
(* backend's discovery path (main_trading_backend.py) and the hourly rate  *)
(* limiter (optimized_trading_listener.py).                                *)
(*                                                                         *)
(* Decimal quantities (balance, prices, amounts) are carried as integers   *)
(* scaled by DecScale: 1000 stands for 1.0.  A profit ratio is compared    *)
(* with a threshold by cross-multiplication, as exact Decimal division     *)
(* would.                                                                  *)
(***************************************************************************)
EXTENDS Integers, Sequences, FiniteSets, TLC

\* ------------------------------------------------------------------ bounds
DecScale == 1000          \* fixed-point scale of the modelled Decimals
MaxClock == 2             \* the millisecond clock runs 0 .. MaxClock
MaxConsecutive == 4       \* cap of the consecutive-profit counters
MaxPolls == 2             \* polls of a price wait before its 30 s run out
TicksPerHour == 4         \* the rate limiter's clock ticks this often an hour
SubSecond == 2            \* clock readings per second where a cooldown is timed
MaxSmallSteps == 3        \* steps of 1/SubSecond s taken while a cooldown is timed
MaxLongSteps == 2         \* steps of 299 s taken while a cooldown is timed
_max_concurrent_monitors == 2   \* the semaphore's permits (50 in the source)
MaxBuffered == 2          \* price updates a socket holds
MaxQueue == 3             \* requests on the trade queue
MaxLocks == 5             \* locks made for one pool
MaxOutages == 2           \* times the database stops taking writes
MaxMonitorTicks == 2      \* a monitor's age is counted up to this many ticks

Pools == {"P1", "P2"}
BuyPrices == {0, 100}                       \* initialPrice of an event; 0 = absent
SamplePrices == {0, 85, 90, 105, 110, 112}  \* prices of pool updates (entry 100)
BuyAmounts == {3 * DecScale, 4 * DecScale}  \* INITIAL_BUY settings tried

\* ------------------------------------------------------- program constants
initial_balance == 10 * DecScale            \* Decimal('10.0')
PAPER_STOP_LOSS_TENTHS == 1                 \* Decimal('-0.10'), in tenths
PAPER_PROFIT_TENTHS == 1                    \* Decimal('0.10'), in tenths

VARIABLES
  now,               \* datetime.now() in milliseconds
  portfolio,         \* PaperTradingManager.portfolio
  position_updates,  \* PaperTradingManager.position_updates
  last_call,         \* the last ledger call and what it returned
  db_pools,          \* rows of table pools
  db_trades,         \* rows of table trades (trade_id is the primary key)
  db_positions,      \* rows of table positions, in insertion order
  active_monitors,   \* RaydiumWebSocketClient._active_monitors (listener)
  streak,            \* per monitored pool: qualifying samples in a row so far
  last_update,       \* what the last _on_pool_update of the listener did
  rate_hour,         \* datetime.now().hour (optimized_trading_listener.py)
  rate_tick,         \* ticks elapsed within the current clock hour
  hourly_trade_count,
  last_hour_reset,
  trade_history,     \* pool -> seconds since its last trade, up to the cooldown
  last_result,       \* how the submission made at this instant, if any, ended
  executed_in_hour,  \* trades executed since the current clock hour began
  tail_trades,       \* trades executed in the last tick of the previous clock hour
  since_limit_hit,   \* ticks since the count reached the limit (-1: it has not)
  utc_offset_ms,     \* the host's local time minus UTC (main_trading_backend.py)
  _pending_pools,    \* pool_data of the pools waiting for a price, by pool id
  price_waits,       \* the _wait_for_valid_price tasks that have not returned
  _trade_queue,      \* the pool_data put on the trade queue, oldest first
  fresh_events,      \* pools of which an event no older than the maximum came
  expired_pools,     \* pools dropped from the pending set by a wait's timeout
  priced_pools,      \* pending pools that got a price update with price > 0
  cd_long,           \* 299 s steps taken so far (optimized_trading_listener.py)
  cd_small,          \* 1/SubSecond s steps taken so far
  cd_history,        \* trade_history in whole seconds since the start, -1: no key
  cd_traded_at,      \* pool -> clock reading of its last successful trade, or -1
  cd_result,         \* how the last timed submission ended, and what it found
  sem_waiting,       \* handlers that have not yet entered execute_trade_inline
  in_flight,         \* handlers awaiting the adapter's buy in execute_trade_inline
  unknown_buys,      \* pools whose buy timed out and still runs in the executor
  late_buys,         \* pools whose timed-out buy ended on the adapter as a success
  live_trading,      \* TradeConfig.live_trading (main_trading_backend.py)
  _active_monitors,  \* the backend's monitored pools, with price and age
  _pool_stats,       \* pools that have statistics
  _traded_pools,     \* pools of which a buy was confirmed
  hung_monitors,     \* pools whose monitor task holds the pool's lock for good
  _monitor_semaphore, \* permits left
  adapter_calls,     \* buys and sells handed to the external adapter
  sell_attempts,     \* pools for which the backend's _execute_sell was called
  last_sell,         \* what the last call of the backend's _execute_sell returned
  last_submission,   \* the last buy or sell the backend submitted, and its status
  _pool_locks,       \* for each pool the lock _pool_locks holds for it, 0 for none
  lock_count,        \* for each pool the locks made for it so far
  lock_held,         \* for each pool and lock the task that holds the lock
  lock_waiters,      \* for each pool and lock the tasks waiting in acquire
  task_at,           \* where each task of the backend stands
  lock_overlap,      \* pools whose critical section ran while a task was inside it
  stop_seen,         \* pools whose monitoring was stopped with tasks waiting
  socket_buffer,     \* price updates the listener's socket holds, not yet handled
  listener_sells,    \* sells the listener invoked on the adapter, not yet returned
  backend_buffer,    \* price updates the backend's socket holds, not yet handled
  backend_sells,     \* sells the backend invoked on the adapter, not yet returned
  listener_stamps,   \* for each pool the timestamp of the last sample the listener processed
  backend_stamps,    \* for each pool the timestamp of the last sample the backend processed
  turn_failed,       \* a turn of the trade processor has ended in an except clause
  turn_after_failure, \* the trade processor took an item after such a turn
  ledger_up,         \* the database takes writes
  outages,           \* the times the database stopped taking writes
  record_tasks,      \* trades whose _record_trade task is created and has not run
  confirmed_trades,  \* the trades the adapter confirmed
  backend_buys,      \* buys the backend invoked on the adapter, not yet returned
  stopped            \* shutdown() has run to its end

ledgerVars == <<portfolio, position_updates, last_call>>

dbVars == <<db_pools, db_trades, db_positions>>

listenerVars == <<active_monitors, streak, last_update>>

rateVars ==
  <<rate_hour, rate_tick, hourly_trade_count, last_hour_reset, trade_history,
    last_result, executed_in_hour, tail_trades, since_limit_hit>>

backendVars ==
  <<utc_offset_ms, _pending_pools, price_waits, _trade_queue, fresh_events,
    expired_pools, priced_pools>>

cooldownVars == <<cd_long, cd_small, cd_history, cd_traded_at, cd_result>>

handlerVars == <<sem_waiting, in_flight, unknown_buys, late_buys>>

monitorVars ==
  <<live_trading, _active_monitors, _pool_stats, _traded_pools, hung_monitors,
    _monitor_semaphore, adapter_calls, sell_attempts, last_sell, last_submission>>

lockVars ==
  <<_pool_locks, lock_count, lock_held, lock_waiters, task_at, lock_overlap,
    stop_seen>>

loopVars ==
  <<socket_buffer, listener_sells, backend_buffer, backend_sells,
    listener_stamps, backend_stamps>>

turnVars == <<turn_failed, turn_after_failure>>

recordVars == <<ledger_up, outages, record_tasks, confirmed_trades>>

shutdownVars == <<backend_buys, stopped>>

processorVars == <<turnVars, recordVars, shutdownVars>>

vars ==
  <<now, ledgerVars, dbVars, listenerVars, rateVars, backendVars, cooldownVars,
    handlerVars, monitorVars, lockVars, processorVars, loopVars>>

\* What the calls on the ledger and the store leave alone.
outsideLedger ==
  <<listenerVars, rateVars, backendVars, cooldownVars, handlerVars,
    monitorVars, lockVars, processorVars, loopVars>>

\* What the listener's handlers leave alone.
outsideListener ==
  <<last_call, rateVars, backendVars, cooldownVars, handlerVars, monitorVars,
    lockVars, processorVars, loopVars>>

\* ------------------------------------------------------------ paper ledger

\* Decimal.quantize under ROUND_HALF_EVEN of num/den, den > 0, num >= 0.
Quantize(num, den) ==
  LET q == num \div den
      r == num % den
  IN  IF 2 * r > den \/ (2 * r = den /\ q % 2 = 1) THEN q + 1 ELSE q

\* positions.get(pool_id): the dict's entry for the key, if any.
HasPosition(positions, pool_id) == \E q \in positions : q.pool_id = pool_id

GetPosition(positions, pool_id) == CHOOSE q \in positions : q.pool_id = pool_id

\* A keyed store that appends instead of replacing the key's entry.
PositionsAppend(positions, position) == positions \cup {position}

\* self.portfolio['positions'][pool_id] = position
PositionsPut(positions, position) ==
  {q \in positions : q.pool_id # position.pool_id} \cup {position}

\* del self.portfolio['positions'][pool_id]
PositionsDel(positions, pool_id) == {q \in positions : q.pool_id # pool_id}

\* _save_portfolio: data = self.portfolio.copy() is a shallow copy, so the
\* loop that turns entry_price, base_amount and quote_amount into strings
\* rewrites the live position dicts; the balance is replaced on the copy only.
_save_portfolio(pf) ==
  [pf EXCEPT !.positions = {[q EXCEPT !.num_type = "str"] : q \in pf.positions}]

NoTrade == [tx_signature |-> -1, pool_id |-> "", trade_type |-> "",
            base_amount |-> 0, quote_amount |-> 0, price |-> 0,
            timestamp |-> 0, status |-> "failed"]

\* A failure that comes after the trade was appended to the trade list.
FailedAfterAppend(pf, pu, error) ==
  [portfolio |-> [pf EXCEPT !.trades = Append(@, NoTrade)],
   position_updates |-> pu, status |-> "failed",
   error |-> error, trade |-> NoTrade, sell_requested |-> FALSE]

\* The except clause of execute_buy, reached from the balance test or from
\* the division, both of which precede the first write to the portfolio.
Failed(pf, pu, error) ==
  [portfolio |-> pf, position_updates |-> pu, status |-> "failed",
   error |-> error, trade |-> NoTrade, sell_requested |-> FALSE]

Returned(pf, pu, trade) ==
  [portfolio |-> pf, position_updates |-> pu, status |-> "confirmed",
   error |-> "", trade |-> trade, sell_requested |-> FALSE]

ReturnedNone(pf, pu, error) ==
  [portfolio |-> pf, position_updates |-> pu, status |-> "None",
   error |-> error, trade |-> NoTrade, sell_requested |-> FALSE]

\* The balance test of execute_buy with the comparison dropped.
NeverInsufficient(sol_amount, balance) == FALSE

\* if sol_amount > self.portfolio['balance']: raise ValueError
InsufficientBalance(sol_amount, balance) == sol_amount > balance

\* PaperTradingManager.execute_buy at clock t.
execute_buy(pf, pu, pool_id, price, sol_amount, t) ==
  IF InsufficientBalance(sol_amount, pf.balance) THEN
    Failed(pf, pu, "Insufficient balance")
  ELSE IF price = 0 THEN
    Failed(pf, pu, "DivisionByZero")
  ELSE
    LET base_amount == Quantize(sol_amount * DecScale, price)
        trade == [tx_signature |-> t, pool_id |-> pool_id, trade_type |-> "buy",
                  base_amount |-> base_amount, quote_amount |-> sol_amount,
                  price |-> price, timestamp |-> t, status |-> "confirmed"]
        position == [pool_id |-> pool_id, entry_trade_id |-> t,
                     entry_price |-> price, base_amount |-> base_amount,
                     quote_amount |-> sol_amount, entry_timestamp |-> t,
                     status |-> "open", last_price |-> price,
                     num_type |-> "Decimal"]
        pf1 == [balance |-> pf.balance - sol_amount,
                trades |-> Append(pf.trades, trade),
                positions |-> PositionsPut(pf.positions, position)]
        pu1 == [q \in (DOMAIN pu) \cup {pool_id} |->
                  IF q = pool_id THEN 0 ELSE pu[q]]
    IN  Returned(_save_portfolio(pf1), pu1, trade)

\* PaperTradingManager.execute_sell at clock t, percentage = 1.0.
execute_sell(pf, pu, pool_id, price, t) ==
  IF ~HasPosition(pf.positions, pool_id) THEN
    ReturnedNone(pf, pu, "No open position")
  ELSE
    LET position == GetPosition(pf.positions, pool_id)
    IN  IF position.status # "open" THEN
          ReturnedNone(pf, pu, "No open position")
        ELSE IF position.num_type = "str" THEN
          \* position['base_amount'] * percentage: str * Decimal
          ReturnedNone(pf, pu, "TypeError")
        ELSE
          LET base_amount == position.base_amount
              quote_amount == Quantize(base_amount * price, DecScale)
              trade == [tx_signature |-> t, pool_id |-> pool_id,
                        trade_type |-> "sell", base_amount |-> base_amount,
                        quote_amount |-> quote_amount, price |-> price,
                        timestamp |-> t, status |-> "confirmed"]
              pf1 == [balance |-> pf.balance + quote_amount,
                      trades |-> Append(pf.trades, trade),
                      positions |-> PositionsDel(pf.positions, pool_id)]
              pu1 == [q \in (DOMAIN pu) \ {pool_id} |-> pu[q]]
          IN  Returned(_save_portfolio(pf1), pu1, trade)

\* profit_pct <= Decimal('-0.10'), profit_pct = (current - entry) / entry
PaperStopLoss(current_price, entry_price) ==
  10 * (current_price - entry_price) <= (0 - PAPER_STOP_LOSS_TENTHS) * entry_price

\* profit_pct >= Decimal('0.10')
PaperProfit(current_price, entry_price) ==
  10 * (current_price - entry_price) >= PAPER_PROFIT_TENTHS * entry_price

\* PaperTradingManager.update_position_price at clock t, with the default
\* strategies ("active_strategies": []).
update_position_price(pf, pu, pool_id, current_price, t) ==
  IF ~HasPosition(pf.positions, pool_id) THEN
    ReturnedNone(pf, pu, "No open position")
  ELSE
    LET position == GetPosition(pf.positions, pool_id)
    IN  IF position.status # "open" THEN
          ReturnedNone(pf, pu, "No open position")
        ELSE IF position.num_type = "str" THEN
          \* current_price - entry_price: Decimal - str
          ReturnedNone(pf, pu, "TypeError")
        ELSE IF PaperStopLoss(current_price, position.entry_price) THEN
          [execute_sell(pf, pu, pool_id, current_price, t)
             EXCEPT !.sell_requested = TRUE]
        ELSE
          LET pu1 == [pu EXCEPT ![pool_id] =
                        IF PaperProfit(current_price, position.entry_price)
                        THEN @ + 1 ELSE 0]
              pf1 == [pf EXCEPT !.positions =
                        PositionsPut(@, [position EXCEPT !.last_price = current_price])]
          IN  ReturnedNone(_save_portfolio(pf1), pu1, "")


\* ------------------------------------------------------------ DatabaseManager

\* CREATE TABLE pools (...)
PoolsColumns ==
  {"pool_id", "base_mint", "quote_mint", "base_decimals", "quote_decimals",
   "initial_price", "discovery_timestamp", "status", "created_at"}

\* CREATE TABLE positions (...)
PositionsColumns ==
  {"position_id", "pool_id", "entry_trade_id", "exit_trade_id", "entry_price",
   "exit_price", "entry_timestamp", "exit_timestamp", "pnl", "status",
   "created_at", "updated_at"}

DbResult(rows, ok) == [rows |-> rows, ok |-> ok]

\* DatabaseManager.store_pool: a known pool is updated only when the event
\* carries a price, and the UPDATE names the column updated_at.
store_pool(rows, pool_id, initial_price) ==
  IF \E r \in rows : r.pool_id = pool_id THEN
    IF initial_price > 0 THEN
      IF {"initial_price", "updated_at"} \subseteq PoolsColumns THEN
        LET hit == {r \in rows : r.pool_id = pool_id /\ r.initial_price = 0}
        IN  DbResult((rows \ hit) \cup {[r EXCEPT !.initial_price = initial_price] : r \in hit},
                     hit # {})
      ELSE DbResult(rows, FALSE)
    ELSE DbResult(rows, TRUE)
  ELSE
    DbResult(rows \cup {[pool_id |-> pool_id, initial_price |-> initial_price,
                         status |-> "active"]}, TRUE)

\* DatabaseManager.store_trade: INSERT keyed by trade_id = tx_signature.
store_trade(rows, trade) ==
  IF \E r \in rows : r.trade_id = trade.tx_signature THEN DbResult(rows, FALSE)
  ELSE DbResult(rows \cup {[trade_id |-> trade.tx_signature, pool_id |-> trade.pool_id,
                            trade_type |-> trade.trade_type,
                            base_amount |-> trade.base_amount,
                            quote_amount |-> trade.quote_amount,
                            price |-> trade.price, timestamp |-> trade.timestamp,
                            status |-> trade.status]}, TRUE)

\* DatabaseManager.store_position: reads seven keys of position_data and
\* inserts into columns the table may not have.
store_position(rows, position_data) ==
  IF ~({"pool_id", "entry_trade_id", "entry_price", "base_amount", "quote_amount",
        "opened_at"} \subseteq DOMAIN position_data) THEN
    DbResult(rows, FALSE)      \* KeyError
  ELSE IF ~({"pool_id", "entry_trade_id", "entry_price", "base_amount",
             "quote_amount", "status", "opened_at"} \subseteq PositionsColumns) THEN
    DbResult(rows, FALSE)      \* sqlite3.OperationalError: no such column
  ELSE
    DbResult(Append(rows, [pool_id |-> position_data.pool_id,
                           entry_trade_id |-> position_data.entry_trade_id,
                           status |-> "open"]), TRUE)

\* position_data as RaydiumWebSocketClient._record_trade builds it
ListenerPositionData(trade) ==
  [pool_id |-> trade.pool_id, entry_trade_id |-> trade.tx_signature,
   entry_price |-> trade.price, entry_timestamp |-> trade.timestamp,
   status |-> "open"]

\* RaydiumWebSocketClient._record_trade for a confirmed trade
_record_trade(trades_rows, positions_rows, trade) ==
  LET st == store_trade(trades_rows, trade)
  IN  IF ~st.ok THEN [db_trades |-> trades_rows, db_positions |-> positions_rows]
      ELSE IF trade.trade_type = "buy" THEN
        [db_trades |-> st.rows,
         db_positions |-> store_position(positions_rows, ListenerPositionData(trade)).rows]
      ELSE [db_trades |-> st.rows, db_positions |-> positions_rows]

DbInit ==
  /\ db_pools = {}
  /\ db_trades = {}
  /\ db_positions = << >>

\* ------------------- RaydiumWebSocketClient (test_websocket_listener.py)
\* The listener in its default paper mode (LIVE_TRADING unset).  Event prices
\* are integer-valued floats, for which the float quotient
\* (current - entry) / entry falls on the same side of 0.1 and -0.1 as the
\* exact one.

exit_profit_threshold == 10          \* TradeConfig, 0.1 as a percentage
stop_loss_threshold == 0 - 10        \* TradeConfig, -0.1 as a percentage
consecutive_updates_required == 3    \* TradeConfig
initial_buy_amount == 4 * DecScale   \* TradeConfig (INITIAL_BUY)

\* update_pool_status: UPDATE pools SET status = ?, updated_at = ...
update_pool_status(rows, pool_id, status) ==
  IF {"status", "updated_at"} \subseteq PoolsColumns THEN
    DbResult({IF r.pool_id = pool_id THEN [r EXCEPT !.status = status] ELSE r : r \in rows},
             \E r \in rows : r.pool_id = pool_id)
  ELSE DbResult(rows, FALSE)

\* What a listener step leaves behind in the ledger and the store.
World(pf, pu, pools, trades, positions, status) ==
  [portfolio |-> pf, position_updates |-> pu, db_pools |-> pools,
   db_trades |-> trades, db_positions |-> positions, status |-> status]

\* RaydiumWebSocketClient._execute_buy (paper)
_execute_buy(pool_id, initial_price) ==
  LET r == execute_buy(portfolio, position_updates, pool_id, initial_price,
                       initial_buy_amount, now)
      rec == _record_trade(db_trades, db_positions, r.trade)
  IN  IF r.status = "confirmed"
      THEN World(r.portfolio, r.position_updates, db_pools,
                 rec.db_trades, rec.db_positions, "confirmed")
      ELSE World(r.portfolio, r.position_updates, db_pools,
                 db_trades, db_positions, "failed")

\* RaydiumWebSocketClient._execute_sell (paper): a None from the ledger makes
\* trade_result['status'] raise, and the handler returns a failed result.
_execute_sell(pool_id, current_price) ==
  LET r == execute_sell(portfolio, position_updates, pool_id, current_price, now)
      rec == _record_trade(db_trades, db_positions, r.trade)
  IN  IF r.status = "confirmed"
      THEN World(r.portfolio, r.position_updates,
                 update_pool_status(db_pools, pool_id, "closed").rows,
                 rec.db_trades, rec.db_positions, "confirmed")
      ELSE World(r.portfolio, r.position_updates, db_pools,
                 db_trades, db_positions, "failed")

\* _start_pool_monitoring
_start_pool_monitoring(monitors, pool_id, entry_price) ==
  IF pool_id \in DOMAIN monitors THEN monitors
  ELSE [q \in (DOMAIN monitors) \cup {pool_id} |->
          IF q = pool_id
          THEN [entry_price |-> entry_price, last_price |-> entry_price,
                consecutive_updates |-> 0]
          ELSE monitors[q]]

\* profit_pct <= self.config.stop_loss_threshold
StopLossHit(current_price, entry_price) ==
  100 * (current_price - entry_price) <= stop_loss_threshold * entry_price

\* profit_pct >= self.config.exit_profit_threshold
ProfitHit(current_price, entry_price) ==
  100 * (current_price - entry_price) >= exit_profit_threshold * entry_price

\* The exit decision of _on_pool_update: the monitor after the sample and
\* the reason to exit, if any.
ExitDecision(monitor, current_price) ==
  LET m1 == [monitor EXCEPT !.last_price = current_price]
  IN  IF StopLossHit(current_price, monitor.entry_price) THEN
        [monitor |-> m1, reason |-> "stop_loss"]
      ELSE IF ProfitHit(current_price, monitor.entry_price) THEN
        [monitor |-> [m1 EXCEPT !.consecutive_updates = @ + 1],
         reason |-> IF m1.consecutive_updates + 1 >= consecutive_updates_required
                    THEN "profit" ELSE ""]
      ELSE
        [monitor |-> [m1 EXCEPT !.consecutive_updates = 0], reason |-> ""]

Without(f, k) == [q \in (DOMAIN f) \ {k} |-> f[q]]

\* data.get('price') of a pool update: the samples, and a negative price
ListenerPrices == SamplePrices \cup {0 - 1}

ListenerInit ==
  /\ active_monitors = << >>
  /\ streak = << >>
  /\ last_update = [pool_id |-> "", price |-> 0, reason |-> "", sell |-> "",
                    run |-> 0]


\* ------------------------- rate limiting (optimized_trading_listener.py)
\* Submissions are processed one at a time, at the instants the clock ticks.
\* The clock keeps the time of day; trade_history keeps, for each pool, the
\* time since its trade instead of the trade's timestamp, up to the cooldown,
\* which is all execute_trade_inline reads of it; a pool never traded is kept
\* like one whose trade is older than the cooldown.  TRADE_COUNT and the
\* latency statistics, which the limiter never reads, are left out.

MAX_TRADES_PER_HOUR == 10
COOLDOWN_SECONDS == 300
HOURS_PER_DAY == 24
TRADING_ENABLED == TRUE

RatePools == {"P1", "P2", "P3"}
StartHours == {0, 12, 23}
BuyOutcomes == {"success", "timeout", "error"}
TickSeconds == 3600 \div TicksPerHour
ClockSteps == {1, TicksPerHour, (HOURS_PER_DAY - 1) * TicksPerHour}

\* The limit test of check_rate_limit taken as "more than the limit".
OverLimit(count) == count > MAX_TRADES_PER_HOUR

\* if hourly_trade_count >= MAX_TRADES_PER_HOUR: return False
AtLimit(count) == count >= MAX_TRADES_PER_HOUR

\* check_rate_limit: the counter and the reset hour it leaves, and its answer
check_rate_limit(count, reset, current_hour) ==
  LET count1 == IF current_hour # reset THEN 0 ELSE count
  IN  [hourly_trade_count |-> count1, last_hour_reset |-> current_hour,
       ok |-> ~AtLimit(count1)]

\* pool_id in trade_history and time_diff < 300
InCooldown(history, pool_id) == history[pool_id] < COOLDOWN_SECONDS

Min(a, b) == IF a < b THEN a ELSE b

\* Pools traded at this instant.
TradedNow == {q \in RatePools : trade_history[q] = 0}

\* Trades executed within the last hour are at least these: the ones of this
\* clock hour and, until this hour's last tick, the ones of the previous clock
\* hour's last tick.
TradesInLastHour ==
  executed_in_hour + (IF rate_tick <= TicksPerHour - 2 THEN tail_trades ELSE 0)

RateInit ==
  /\ rate_tick = 0
  /\ hourly_trade_count = 0
  /\ last_hour_reset = rate_hour
  /\ trade_history = [q \in RatePools |-> COOLDOWN_SECONDS]
  /\ last_result = "none"
  /\ executed_in_hour = 0
  /\ tail_trades = 0
  /\ since_limit_hit = -1

\* ------------------- RaydiumWebSocketClient (main_trading_backend.py)
max_pool_age_ms == 5000
IMMEDIATE_TRADING == TRUE

\* Local time minus UTC on the hosts tried: New York, UTC, Berlin (winter).
HostUtcOffsets == {0 - 18000000, 0, 3600000}

\* How long before its arrival an event was stamped by the server.
EventAges == {0, max_pool_age_ms, max_pool_age_ms + 1, 3600000}

\* age_ms: datetime.now(), the host's local time without a zone, minus the
\* event's UTC timestamp stripped of its zone.
age_ms(true_age, offset) == true_age + offset

TooOld(age) == age > max_pool_age_ms

pool_data(pool_id, initial_price) ==
  [pool_id |-> pool_id, initial_price |-> initial_price, price_received |-> FALSE]

IsPending(pending, pool_id) == \E q \in pending : q.pool_id = pool_id

PendingOf(pending, pool_id) == CHOOSE q \in pending : q.pool_id = pool_id

\* self._pending_pools[pool_id] = pool_data
PendingPut(pending, data) == {q \in pending : q.pool_id # data.pool_id} \cup {data}

\* del self._pending_pools[pool_id]
PendingDel(pending, pool_id) == {q \in pending : q.pool_id # pool_id}

BackendInit ==
  /\ _pending_pools = {}
  /\ price_waits = {}
  /\ _trade_queue = <<>>
  /\ fresh_events = {}
  /\ expired_pools = {}
  /\ priced_pools = {}

\* ------------- the per-pool cooldown (optimized_trading_listener.py), timed
\* The clock reads cd_elapsed units of 1/SubSecond s after a whole second.

LongStep == (COOLDOWN_SECONDS - 1) * SubSecond

cd_elapsed == cd_long * LongStep + cd_small

\* int(current_time.timestamp()): the whole seconds of a clock reading.
IntTimestamp(reading) == reading \div SubSecond

\* (current_time - datetime.fromtimestamp(trade_history[pool_id]))
\* .total_seconds(), in units of 1/SubSecond s.
time_diff(reading, stamp) == reading - stamp * SubSecond

\* if pool_id in trade_history: ... if time_diff < 300
CooldownActive(history, pool_id, reading) ==
  /\ history[pool_id] # -1
  /\ time_diff(reading, history[pool_id]) < COOLDOWN_SECONDS * SubSecond

CooldownInit ==
  /\ cd_long = 0
  /\ cd_small = 0
  /\ cd_history = [q \in Pools |-> -1]
  /\ cd_traded_at = [q \in Pools |-> -1]
  /\ cd_result = [pool_id |-> "", result |-> "none", since |-> -1]

\* ---------- the event handlers (optimized_trading_listener.py), interleaved
MAX_CONCURRENT_TRADES == 3

TradeEvents == {"pool_status_6", "pool_ready"}

\* A handler at work on one event.
Handler(pool_id, event) == [pool_id |-> pool_id, event |-> event]

HandlersInit ==
  /\ sem_waiting = {}
  /\ in_flight = {}
  /\ unknown_buys = {}
  /\ late_buys = {}

\* ------------ RaydiumWebSocketClient (main_trading_backend.py), monitoring
max_monitor_time == 300
BACKEND_PROFIT_TENTHS == 1           \* TradeConfig.exit_profit_threshold, 0.1
BACKEND_STOP_LOSS_TENTHS == 1        \* TradeConfig.stop_loss_threshold, -0.1
backend_initial_buy_amount == (5 * DecScale) \div 1000   \* INITIAL_BUY, 0.005

MonitorPools == {"M1", "M2", "M3"}

\* Prices of the price updates of a monitored pool bought at 100
MonitorPrices == {0, 90, 100, 105, 110}

\* A monitor's age advances by ticks of max_monitor_time seconds.
MonitorTickSeconds == max_monitor_time

IsMonitored(monitors, pool_id) == \E q \in monitors : q.pool_id = pool_id

MonitorOf(monitors, pool_id) == CHOOSE q \in monitors : q.pool_id = pool_id

\* del self._active_monitors[pool_id]
MonitorsDel(monitors, pool_id) == {q \in monitors : q.pool_id # pool_id}

\* (current_time - start_time).total_seconds() > self.config.max_monitor_time
TimeExceeded(elapsed) == elapsed * MonitorTickSeconds > max_monitor_time

\* price_change = ((current_price - entry_price) / entry_price) * 100, a
\* percentage, compared with the thresholds 0.1 and -0.1; entry_price > 0.
BackendProfitHit(current_price, entry_price) ==
  10 * 100 * (current_price - entry_price) >= BACKEND_PROFIT_TENTHS * entry_price

BackendStopLossHit(current_price, entry_price) ==
  10 * 100 * (current_price - entry_price) <= (0 - BACKEND_STOP_LOSS_TENTHS) * entry_price

\* A mode test that always takes the adapter.
AlwaysAdapter(live) == TRUE

\* A status test that takes every result for a confirmed one.
AnyStatus(status) == TRUE

\* if trade_result['status'] == 'confirmed':
Confirmed(status) == status = "confirmed"

\* if self.config.live_trading: the external adapter, else the paper ledger
UsesAdapter(live) == live

\* The keyword parameters of PaperTradingManager.execute_sell, and the
\* keywords the backend's _execute_sell passes to it.
PaperSellParameters == {"pool_id", "price", "percentage"}

BackendSellKeywords == {"pool_id", "current_price"}

\* What the adapter returns: swap.execute_buy and swap.execute_sell catch
\* every exception and return a dict with a status.
AdapterResult(pool_id, trade_type, price, quote_amount, outcome, t) ==
  [status |-> IF outcome = "success" THEN "confirmed" ELSE "failed",
   error |-> IF outcome = "success" THEN "" ELSE outcome,
   trade |-> [tx_signature |-> t, pool_id |-> pool_id, trade_type |-> trade_type,
              base_amount |-> 0, quote_amount |-> quote_amount, price |-> price,
              timestamp |-> t, status |-> "confirmed"]]

\* DatabaseManager.update_position: the UPDATE names its columns.
update_position(rows, position_data) ==
  IF {"exit_trade_id", "exit_price", "pnl", "pnl_percentage", "status",
      "closed_at", "updated_at"} \subseteq PositionsColumns
  THEN DbResult([i \in DOMAIN rows |->
                   IF rows[i].pool_id = position_data.pool_id /\ rows[i].status = "open"
                   THEN [rows[i] EXCEPT !.status = "closed"] ELSE rows[i]], TRUE)
  ELSE DbResult(rows, FALSE)    \* sqlite3.OperationalError: no such column

\* position_data as the backend's _record_trade builds it for a buy
BackendPositionData(trade) ==
  [pool_id |-> trade.pool_id, entry_trade_id |-> trade.tx_signature,
   entry_price |-> trade.price, base_amount |-> trade.base_amount,
   quote_amount |-> trade.quote_amount, status |-> "open",
   opened_at |-> trade.timestamp]

\* The backend's _record_trade for a confirmed trade
backend_record_trade(trades_rows, positions_rows, trade) ==
  LET st == store_trade(trades_rows, trade)
  IN  IF ~st.ok THEN [db_trades |-> trades_rows, db_positions |-> positions_rows]
      ELSE IF trade.trade_type = "buy" THEN
        [db_trades |-> st.rows,
         db_positions |-> store_position(positions_rows, BackendPositionData(trade)).rows]
      ELSE
        [db_trades |-> st.rows,
         db_positions |-> update_position(positions_rows, [pool_id |-> trade.pool_id]).rows]

\* The pool whose lock the tasks contend for, the handlers of its price
\* updates, and the task _start_pool_monitoring creates for it.
LockPools == {"M1"}

UpdateTasks == {"u1", "u2"}

MonitorTask(pool_id) == "monitor_" \o pool_id

Tasks ==
  UpdateTasks \cup {MonitorTask(pool_id) : pool_id \in LockPools}
    \cup {"trade_processor"}

NoTask == "none"

Locks == 1 .. MaxLocks

\* _get_pool_lock with a lock made on every call.
AlwaysNewLock(locks, count, pool_id) == count[pool_id] + 1

\* _get_pool_lock: the lock _pool_locks holds for the pool, a new one if it
\* holds none.
_get_pool_lock(locks, count, pool_id) ==
  IF locks[pool_id] = 0 THEN count[pool_id] + 1 ELSE locks[pool_id]

\* asyncio.Lock.acquire returns at once: the lock is not locked and nobody
\* waits for it.
CanAcquire(held, waiters, pool_id, lock) ==
  held[pool_id][lock] = NoTask /\ waiters[pool_id][lock] = << >>

\* asyncio.Lock.release wakes the first waiter, which is to take the lock
\* when it runs: the lock is free and its first waiter is awake.
Woken(held, waiters, pool_id, lock) ==
  held[pool_id][lock] = NoTask /\ waiters[pool_id][lock] # << >>

\* The tasks inside the pool's critical section, suspended there.
Inside(held, pool_id) ==
  {held[pool_id][lock] : lock \in Locks} \ {NoTask}

LocksInit ==
  /\ _pool_locks = [pool_id \in LockPools |-> 0]
  /\ lock_count = [pool_id \in LockPools |-> 0]
  /\ lock_held = [pool_id \in LockPools |-> [lock \in Locks |-> NoTask]]
  /\ lock_waiters = [pool_id \in LockPools |-> [lock \in Locks |-> << >>]]
  /\ task_at = [task \in Tasks |-> "idle"]
  /\ lock_overlap = {}
  /\ stop_seen = {}

\* The pools whose exits are followed, one of each program.
ListenerSellPools == {"P1"}

BackendSellPools == {"M1"}

\* The event loops start with nothing received and no sell invoked.
LoopsInit ==
  /\ socket_buffer = << >>
  /\ listener_sells = << >>
  /\ backend_buffer = << >>
  /\ backend_sells = << >>
  /\ listener_stamps = [pool_id \in ListenerSellPools |-> 0]
  /\ backend_stamps = [pool_id \in BackendSellPools |-> 0]

ProcessorInit ==
  /\ turn_failed = FALSE
  /\ turn_after_failure = FALSE
  /\ ledger_up = TRUE
  /\ outages = 0
  /\ record_tasks = {}
  /\ confirmed_trades = {}
  /\ backend_buys = << >>
  /\ stopped = FALSE

\* A submission and the status of its result; flip tells one submission
\* from the next.
Submission(op, pool_id, status, flip) ==
  [op |-> op, pool_id |-> pool_id, status |-> status, flip |-> flip]

MonitorsInit ==
  /\ _active_monitors = {}
  /\ _pool_stats = {}
  /\ _traded_pools = {}
  /\ hung_monitors = {}
  /\ _monitor_semaphore = _max_concurrent_monitors
  /\ adapter_calls = {}
  /\ sell_attempts = {}
  /\ last_sell = [pool_id |-> "", status |-> "", error |-> ""]
  /\ last_submission = Submission("none", "", "", FALSE)
  /\ LocksInit
  /\ LoopsInit
  /\ ProcessorInit

\* ------------------------------------------- the ledger and the store, called

Call(op, pool_id, r) ==
  [op |-> op, pool_id |-> pool_id, status |-> r.status, error |-> r.error,
   sell_requested |-> r.sell_requested]

LedgerInit ==
  /\ portfolio = [balance |-> initial_balance, positions |-> {}, trades |-> << >>]
  /\ position_updates = << >>
  /\ last_call = [op |-> "none", pool_id |-> "", status |-> "", error |-> "",
                  sell_requested |-> FALSE]

\* paper_trader.execute_buy(pool_id, ..., price, ..., sol_amount)
PaperBuy(pool_id, price, sol_amount) ==
  LET r == execute_buy(portfolio, position_updates, pool_id, price, sol_amount, now)
  IN  /\ portfolio' = r.portfolio
      /\ position_updates' = r.position_updates
      /\ last_call' = Call("execute_buy", pool_id, r)
      /\ UNCHANGED <<now, dbVars, outsideLedger>>

\* paper_trader.execute_sell(pool_id, price, 1.0)
PaperSell(pool_id, price) ==
  LET r == execute_sell(portfolio, position_updates, pool_id, price, now)
  IN  /\ portfolio' = r.portfolio
      /\ position_updates' = r.position_updates
      /\ last_call' = Call("execute_sell", pool_id, r)
      /\ UNCHANGED <<now, dbVars, outsideLedger>>

\* paper_trader.update_position_price(pool_id, current_price)
PaperUpdate(pool_id, price) ==
  LET r == update_position_price(portfolio, position_updates, pool_id, price, now)
  IN  /\ portfolio' = r.portfolio
      /\ position_updates' = r.position_updates
      /\ last_call' = Call("update_position_price", pool_id, r)
      /\ UNCHANGED <<now, dbVars, outsideLedger>>

\* db_manager.store_trade(trade) for a trade of the ledger
StoreTrade(i) ==
  /\ i \in 1 .. Len(portfolio.trades)
  /\ db_trades' = store_trade(db_trades, portfolio.trades[i]).rows
  /\ UNCHANGED <<now, ledgerVars, db_pools, db_positions, outsideLedger>>

\* db_manager.store_position(position_data) for a trade of the ledger, with
\* the listener's five keys or with the ledger's own position record
StorePosition(i, whole) ==
  /\ i \in 1 .. Len(portfolio.trades)
  /\ portfolio.trades[i].trade_type = "buy"
  /\ LET trade == portfolio.trades[i]
         data == IF whole /\ HasPosition(portfolio.positions, trade.pool_id)
                 THEN GetPosition(portfolio.positions, trade.pool_id)
                 ELSE ListenerPositionData(trade)
     IN  db_positions' = store_position(db_positions, data).rows
  /\ UNCHANGED <<now, ledgerVars, db_pools, db_trades, outsideLedger>>

Tick ==
  /\ now < MaxClock
  /\ now' = now + 1
  /\ UNCHANGED <<ledgerVars, dbVars, outsideLedger>>


\* The listener and the ledger, with the rate limiter's module idle.
Init ==
  /\ now = 0 /\ LedgerInit /\ DbInit /\ ListenerInit
  /\ rate_hour = 0 /\ RateInit
  /\ utc_offset_ms = 0 /\ BackendInit
  /\ CooldownInit /\ HandlersInit
  /\ live_trading = FALSE /\ MonitorsInit

Next ==
  \/ Tick
  \/ \E p \in Pools, price \in BuyPrices, a \in BuyAmounts : PaperBuy(p, price, a)
  \/ \E p \in Pools, price \in SamplePrices \ {0} : PaperSell(p, price)
  \/ \E p \in Pools, price \in SamplePrices \ {0} : PaperUpdate(p, price)
  \/ \E i \in 1 .. Len(portfolio.trades) : StoreTrade(i)
  \/ \E i \in 1 .. Len(portfolio.trades), whole \in BOOLEAN : StorePosition(i, whole)

Spec == Init /\ [][Next]_vars

\* ------------------------------------------------ the listener's handlers

\* _on_new_pool
OnNewPool(pool_id, initial_price) ==
  LET st == store_pool(db_pools, pool_id, initial_price)
      w == _execute_buy(pool_id, initial_price)
      starts == st.ok /\ w.status = "confirmed" /\ pool_id \notin DOMAIN active_monitors
  IN  /\ db_pools' = st.rows
      /\ portfolio' = IF st.ok THEN w.portfolio ELSE portfolio
      /\ position_updates' = IF st.ok THEN w.position_updates ELSE position_updates
      /\ db_trades' = IF st.ok THEN w.db_trades ELSE db_trades
      /\ db_positions' = IF st.ok THEN w.db_positions ELSE db_positions
      /\ active_monitors' = IF st.ok /\ w.status = "confirmed"
                            THEN _start_pool_monitoring(active_monitors, pool_id, initial_price)
                            ELSE active_monitors
      /\ streak' = IF starts
                   THEN [q \in (DOMAIN streak) \cup {pool_id} |->
                           IF q = pool_id THEN 0 ELSE streak[q]]
                   ELSE streak
      /\ UNCHANGED <<now, last_update, outsideListener>>

\* _on_pool_update
OnPoolUpdate(pool_id, current_price) ==
  /\ pool_id \in DOMAIN active_monitors
       => active_monitors[pool_id].consecutive_updates < MaxConsecutive
  /\ IF current_price = 0 \/ pool_id \notin DOMAIN active_monitors THEN
       UNCHANGED <<portfolio, position_updates, dbVars, listenerVars>>
     ELSE
       LET d == ExitDecision(active_monitors[pool_id], current_price)
           w == _execute_sell(pool_id, current_price)
           sold == d.reason # "" /\ w.status = "confirmed"
           run == IF ProfitHit(current_price, active_monitors[pool_id].entry_price)
                  THEN streak[pool_id] + 1 ELSE 0
       IN  /\ active_monitors' =
                IF sold THEN Without(active_monitors, pool_id)
                ELSE [active_monitors EXCEPT ![pool_id] = d.monitor]
           /\ streak' = IF sold THEN Without(streak, pool_id)
                        ELSE [streak EXCEPT ![pool_id] = run]
           /\ last_update' = [pool_id |-> pool_id, price |-> current_price,
                              reason |-> d.reason,
                              sell |-> IF d.reason = "" THEN "" ELSE w.status,
                              run |-> run]
           /\ portfolio' = IF d.reason # "" THEN w.portfolio ELSE portfolio
           /\ position_updates' =
                IF d.reason # "" THEN w.position_updates ELSE position_updates
           /\ db_pools' = IF d.reason # "" THEN w.db_pools ELSE db_pools
           /\ db_trades' = IF d.reason # "" THEN w.db_trades ELSE db_trades
           /\ db_positions' = IF d.reason # "" THEN w.db_positions ELSE db_positions
  /\ UNCHANGED <<now, outsideListener>>

\* _on_disconnect: _cleanup_active_monitors
OnDisconnect ==
  /\ active_monitors' = << >>
  /\ streak' = << >>
  /\ UNCHANGED <<now, portfolio, position_updates, dbVars, last_update, outsideListener>>

ListenerTick ==
  /\ now < MaxClock
  /\ now' = now + 1
  /\ UNCHANGED <<portfolio, position_updates, dbVars, listenerVars, outsideListener>>

NextListener ==
  \/ ListenerTick
  \/ \E p \in Pools, price \in BuyPrices : OnNewPool(p, price)
  \/ \E p \in Pools, price \in ListenerPrices : OnPoolUpdate(p, price)
  \/ OnDisconnect

SpecListener == Init /\ [][NextListener]_vars

\* ------------------------------------------------ the rate limiter's steps

outsideRate ==
  <<now, ledgerVars, dbVars, listenerVars, backendVars, cooldownVars,
    handlerVars, monitorVars, lockVars, processorVars, loopVars>>

\* execute_trade_inline(pool_id, ...) where the adapter, if it is called,
\* ends as `outcome`
SubmitTrade(pool_id, outcome) ==
  LET rl == check_rate_limit(hourly_trade_count, last_hour_reset, rate_hour)
      resets == rate_hour # last_hour_reset
      result == IF ~TRADING_ENABLED THEN "disabled"
                ELSE IF ~rl.ok THEN "rate_limited"
                ELSE IF InCooldown(trade_history, pool_id) THEN "cooldown"
                ELSE outcome
  IN  /\ last_result' = result
      /\ hourly_trade_count' =
           IF result = "disabled" THEN hourly_trade_count
           ELSE IF result = "success" THEN rl.hourly_trade_count + 1
           ELSE rl.hourly_trade_count
      /\ last_hour_reset' =
           IF result = "disabled" THEN last_hour_reset ELSE rl.last_hour_reset
      /\ trade_history' =
           IF result = "success"
           THEN [trade_history EXCEPT ![pool_id] = 0]
           ELSE trade_history
      /\ executed_in_hour' =
           IF result = "success" THEN executed_in_hour + 1 ELSE executed_in_hour
      /\ tail_trades' = tail_trades
      /\ since_limit_hit' =
           IF result = "success" /\ AtLimit(rl.hourly_trade_count + 1) THEN 0
           ELSE IF result # "disabled" /\ resets THEN -1
           ELSE since_limit_hit
      /\ UNCHANGED <<rate_hour, rate_tick, outsideRate>>

\* d ticks pass with no submission
AdvanceClock(d) ==
  LET total == rate_tick + d
      hours == total \div TicksPerHour
  IN  /\ rate_tick' = total % TicksPerHour
      /\ rate_hour' = (rate_hour + hours) % HOURS_PER_DAY
      /\ trade_history' =
           [q \in DOMAIN trade_history |->
              Min(COOLDOWN_SECONDS, trade_history[q] + d * TickSeconds)]
      /\ executed_in_hour' = IF hours > 0 THEN 0 ELSE executed_in_hour
      /\ tail_trades' = IF hours = 0 THEN tail_trades
                        ELSE IF d = 1 THEN Cardinality(TradedNow)
                        ELSE 0
      /\ since_limit_hit' =
           IF since_limit_hit = -1 THEN -1 ELSE Min(TicksPerHour, since_limit_hit + d)
      /\ last_result' = "none"
      /\ UNCHANGED <<hourly_trade_count, last_hour_reset, outsideRate>>

NextRate ==
  \/ \E p \in RatePools, outcome \in BuyOutcomes : SubmitTrade(p, outcome)
  \/ \E d \in ClockSteps : AdvanceClock(d)

\* The rate limiter's module, imported at one of the start hours.
InitRate ==
  /\ now = 0 /\ LedgerInit /\ DbInit /\ ListenerInit
  /\ rate_hour \in StartHours /\ RateInit
  /\ utc_offset_ms = 0 /\ BackendInit
  /\ CooldownInit /\ HandlersInit
  /\ live_trading = FALSE /\ MonitorsInit

SpecRate == InitRate /\ [][NextRate]_vars

\* ------------------------------------- the backend's discovery handlers

outsideLocks ==
  <<now, listenerVars, rateVars, cooldownVars, handlerVars, loopVars,
    processorVars>>

outsideMonitors == <<outsideLocks, lockVars>>

outsideBackend == <<ledgerVars, monitorVars, outsideMonitors>>

\* datetime.fromisoformat takes a str.
FromIsoformatAccepts(type) == type = "str"

\* RaydiumWebSocketClient._on_new_pool of the backend, on an event stamped
\* true_age milliseconds before it arrives.
BackendOnNewPool(pool_id, initial_price, true_age) ==
  /\ fresh_events' = IF true_age <= max_pool_age_ms
                       THEN fresh_events \cup {pool_id} ELSE fresh_events
  /\ IF TooOld(age_ms(true_age, utc_offset_ms))
       THEN UNCHANGED <<db_pools, _pending_pools, price_waits, priced_pools>>
       ELSE /\ db_pools' = store_pool(db_pools, pool_id, initial_price).rows
            /\ _pending_pools' =
                 PendingPut(_pending_pools, pool_data(pool_id, initial_price))
            /\ price_waits' = price_waits \cup {[pool_id |-> pool_id, polls |-> 0]}
            /\ priced_pools' = priced_pools \ {pool_id}
  /\ UNCHANGED <<utc_offset_ms, _trade_queue, expired_pools, db_trades,
                 db_positions, outsideBackend>>

\* One turn of the loop of _wait_for_valid_price, or its end on timeout.
WaitForValidPrice(task) ==
  /\ task \in price_waits
  /\ expired_pools' =
       IF task.polls >= MaxPolls /\ IsPending(_pending_pools, task.pool_id)
       THEN expired_pools \cup {task.pool_id} ELSE expired_pools
  /\ IF task.polls >= MaxPolls THEN
       /\ _pending_pools' = PendingDel(_pending_pools, task.pool_id)
       /\ price_waits' = price_waits \ {task}
       /\ _trade_queue' = _trade_queue
     ELSE IF ~IsPending(_pending_pools, task.pool_id) THEN
       /\ price_waits' = price_waits \ {task}
       /\ UNCHANGED <<_pending_pools, _trade_queue>>
     ELSE IF PendingOf(_pending_pools, task.pool_id).price_received THEN
       /\ _trade_queue' = Append(_trade_queue, PendingOf(_pending_pools, task.pool_id))
       /\ _pending_pools' = PendingDel(_pending_pools, task.pool_id)
       /\ price_waits' = price_waits \ {task}
     ELSE
       /\ price_waits' = (price_waits \ {task}) \cup {[task EXCEPT !.polls = @ + 1]}
       /\ UNCHANGED <<_pending_pools, _trade_queue>>
  /\ UNCHANGED <<utc_offset_ms, fresh_events, priced_pools, dbVars, outsideBackend>>

\* The backend's _execute_sell, as a result and what becomes of the ledger:
\* in paper mode the ledger's execute_sell is called by keyword, and a None
\* it returns is subscripted.
backend_execute_sell(pool_id, current_price, outcome) ==
  IF UsesAdapter(live_trading) THEN
    LET a == AdapterResult(pool_id, "sell", current_price, 0, outcome, now)
    IN  [status |-> a.status, error |-> a.error, trade |-> a.trade,
         portfolio |-> portfolio, position_updates |-> position_updates,
         adapter |-> TRUE]
  ELSE IF ~(BackendSellKeywords \subseteq PaperSellParameters) THEN
    [status |-> "failed", error |-> "TypeError", trade |-> NoTrade,
     portfolio |-> portfolio, position_updates |-> position_updates,
     adapter |-> FALSE]
  ELSE
    LET r == execute_sell(portfolio, position_updates, pool_id, current_price, now)
    IN  [status |-> IF r.status = "None" THEN "failed" ELSE r.status,
         error |-> IF r.status = "None" THEN "TypeError" ELSE r.error,
         trade |-> r.trade, portfolio |-> r.portfolio,
         position_updates |-> r.position_updates, adapter |-> FALSE]

\* The update gets past the price test and the read of stats.
ReachesStats(pool_id, current_price) ==
  current_price > 0 /\ pool_id \in _pool_stats

\* _check_exit_conditions calls _execute_sell: the pool is monitored, its
\* entry price divides, and the change is past a threshold.
ExitTriggered(pool_id, current_price) ==
  /\ ReachesStats(pool_id, current_price)
  /\ IsMonitored(_active_monitors, pool_id)
  /\ MonitorOf(_active_monitors, pool_id).initial_price # 0
  /\ \/ BackendProfitHit(current_price,
                         MonitorOf(_active_monitors, pool_id).initial_price)
     \/ BackendStopLossHit(current_price,
                           MonitorOf(_active_monitors, pool_id).initial_price)

\* The body of RaydiumWebSocketClient._on_pool_update of the backend, run
\* with the pool's lock taken: the snapshot message reads stats, bound only for a pool of
\* _pool_stats, before the pending pool's price is taken and the exit
\* conditions are checked.
BackendUpdateBody(pool_id, current_price, outcome) ==
  LET reaches == ReachesStats(pool_id, current_price)
      sells == ExitTriggered(pool_id, current_price)
      r == backend_execute_sell(pool_id, current_price, outcome)
      db == backend_record_trade(db_trades, db_positions, r.trade)
  IN  /\ _pending_pools' =
           IF /\ reaches
              /\ IsPending(_pending_pools, pool_id)
              /\ ~PendingOf(_pending_pools, pool_id).price_received
           THEN PendingPut(_pending_pools,
                           [PendingOf(_pending_pools, pool_id)
                              EXCEPT !.initial_price = current_price,
                                     !.price_received = TRUE])
           ELSE _pending_pools
      /\ IF sells THEN
           /\ sell_attempts' = sell_attempts \cup {[pool_id |-> pool_id, cause |-> "exit"]}
           /\ last_sell' = [pool_id |-> pool_id, status |-> r.status, error |-> r.error]
           /\ last_submission' =
                Submission("sell", pool_id, r.status, ~last_submission.flip)
           /\ adapter_calls' = IF r.adapter
                                 THEN adapter_calls \cup {[op |-> "sell", pool_id |-> pool_id]}
                                 ELSE adapter_calls
           /\ portfolio' = r.portfolio
           /\ position_updates' = r.position_updates
           /\ IF Confirmed(r.status) THEN
                /\ _active_monitors' = MonitorsDel(_active_monitors, pool_id)
                /\ db_trades' = db.db_trades
                /\ db_positions' = db.db_positions
              ELSE UNCHANGED <<_active_monitors, db_trades, db_positions>>
         ELSE UNCHANGED <<sell_attempts, last_sell, last_submission, adapter_calls,
                          portfolio, position_updates, _active_monitors, db_trades,
                          db_positions>>
      /\ priced_pools' = IF current_price > 0 /\ IsPending(_pending_pools, pool_id)
                          THEN priced_pools \cup {pool_id} ELSE priced_pools
      /\ UNCHANGED <<utc_offset_ms, price_waits, _trade_queue, fresh_events,
                     expired_pools, db_pools, last_call, live_trading, _pool_stats,
                     _traded_pools, hung_monitors, _monitor_semaphore>>

\* The handler with the pool's lock free when it asks for it.
BackendOnPoolUpdate(pool_id, current_price, outcome) ==
  /\ pool_id \notin hung_monitors
  /\ BackendUpdateBody(pool_id, current_price, outcome)
  /\ UNCHANGED outsideMonitors

\* RaydiumWebSocketClient._on_pool_ready: detection_time, a datetime, is
\* handed to datetime.fromisoformat before the pool is queued.
BackendOnPoolReady(pool_id) ==
  /\ IsPending(_pending_pools, pool_id)
  /\ IF FromIsoformatAccepts("datetime") THEN
       /\ _trade_queue' = IF IMMEDIATE_TRADING
                            THEN Append(_trade_queue, PendingOf(_pending_pools, pool_id))
                            ELSE _trade_queue
       /\ _pending_pools' = PendingDel(_pending_pools, pool_id)
     ELSE UNCHANGED <<_pending_pools, _trade_queue>>
  /\ UNCHANGED <<utc_offset_ms, price_waits, fresh_events, expired_pools,
                 priced_pools, dbVars,
                 outsideBackend>>

NextBackend ==
  \/ \E pool_id \in Pools, initial_price \in BuyPrices, true_age \in EventAges :
       BackendOnNewPool(pool_id, initial_price, true_age)
  \/ \E task \in price_waits : WaitForValidPrice(task)
  \/ \E pool_id \in Pools, current_price \in SamplePrices, outcome \in BuyOutcomes :
       BackendOnPoolUpdate(pool_id, current_price, outcome)
  \/ \E pool_id \in Pools : BackendOnPoolReady(pool_id)

\* The backend on a host of one of the time zones.
InitBackend ==
  /\ now = 0 /\ LedgerInit /\ DbInit /\ ListenerInit
  /\ rate_hour = 0 /\ RateInit
  /\ utc_offset_ms \in HostUtcOffsets /\ BackendInit
  /\ CooldownInit /\ HandlersInit
  /\ live_trading = FALSE /\ MonitorsInit

SpecBackend == InitBackend /\ [][NextBackend]_vars

\* ------------------------------------------ the cooldown's steps, timed

outsideCooldown ==
  <<now, ledgerVars, dbVars, listenerVars, backendVars, handlerVars,
    monitorVars, lockVars, processorVars, loopVars, rate_hour,
    rate_tick, trade_history, last_result, executed_in_hour, tail_trades,
    since_limit_hit>>

\* execute_trade_inline at the clock reading cd_elapsed, within one clock hour.
TimedSubmitTrade(pool_id, outcome) ==
  LET rl == check_rate_limit(hourly_trade_count, last_hour_reset, rate_hour)
      result == IF ~TRADING_ENABLED THEN "disabled"
                ELSE IF ~rl.ok THEN "rate_limited"
                ELSE IF CooldownActive(cd_history, pool_id, cd_elapsed) THEN "cooldown"
                ELSE outcome
  IN  /\ cd_result' =
           [pool_id |-> pool_id, result |-> result,
            since |-> IF cd_traded_at[pool_id] = -1 THEN -1
                      ELSE cd_elapsed - cd_traded_at[pool_id]]
      /\ hourly_trade_count' =
           IF result = "disabled" THEN hourly_trade_count
           ELSE IF result = "success" THEN rl.hourly_trade_count + 1
           ELSE rl.hourly_trade_count
      /\ last_hour_reset' =
           IF result = "disabled" THEN last_hour_reset ELSE rl.last_hour_reset
      /\ cd_history' =
           IF result = "success"
           THEN [cd_history EXCEPT ![pool_id] = IntTimestamp(cd_elapsed)]
           ELSE cd_history
      /\ cd_traded_at' =
           IF result = "success"
           THEN [cd_traded_at EXCEPT ![pool_id] = cd_elapsed]
           ELSE cd_traded_at
      /\ UNCHANGED <<cd_long, cd_small, outsideCooldown>>

\* 1/SubSecond s passes with no submission
SmallStep ==
  /\ cd_small < MaxSmallSteps
  /\ cd_small' = cd_small + 1
  /\ cd_result' = [cd_result EXCEPT !.result = "none"]
  /\ UNCHANGED <<cd_long, cd_history, cd_traded_at, hourly_trade_count,
                 last_hour_reset, outsideCooldown>>

\* 299 s pass with no submission
LongWait ==
  /\ cd_long < MaxLongSteps
  /\ cd_long' = cd_long + 1
  /\ cd_result' = [cd_result EXCEPT !.result = "none"]
  /\ UNCHANGED <<cd_small, cd_history, cd_traded_at, hourly_trade_count,
                 last_hour_reset, outsideCooldown>>

NextCooldown ==
  \/ \E pool_id \in Pools, outcome \in BuyOutcomes : TimedSubmitTrade(pool_id, outcome)
  \/ SmallStep
  \/ LongWait

SpecCooldown == Init /\ [][NextCooldown]_vars

\* ------------------------------------- the event handlers, interleaved

outsideHandlers ==
  <<now, ledgerVars, dbVars, listenerVars, backendVars, cooldownVars,
    monitorVars, lockVars, processorVars, loopVars, rate_hour,
    rate_tick, last_result, executed_in_hour, tail_trades, since_limit_hit>>

\* on_pool_status_6 and on_pool_ready up to their call of execute_trade.
EventArrives(pool_id, event, missed_tee_up) ==
  /\ Handler(pool_id, event) \notin sem_waiting \cup in_flight
  /\ sem_waiting' = IF event = "pool_status_6" /\ missed_tee_up
                      THEN sem_waiting
                      ELSE sem_waiting \cup {Handler(pool_id, event)}
  /\ UNCHANGED <<in_flight, unknown_buys, late_buys, hourly_trade_count,
                 last_hour_reset, trade_history, outsideHandlers>>

\* execute_trade takes the semaphore, and execute_trade_inline runs up to the
\* await of the adapter's buy, or returns False before it.
EnterTrade(h) ==
  LET rl == check_rate_limit(hourly_trade_count, last_hour_reset, rate_hour)
      rejected == \/ ~TRADING_ENABLED
                  \/ ~rl.ok
                  \/ InCooldown(trade_history, h.pool_id)
  IN  /\ h \in sem_waiting
      /\ Cardinality(in_flight) < MAX_CONCURRENT_TRADES
      /\ sem_waiting' = sem_waiting \ {h}
      /\ in_flight' = IF rejected THEN in_flight ELSE in_flight \cup {h}
      /\ hourly_trade_count' =
           IF TRADING_ENABLED THEN rl.hourly_trade_count ELSE hourly_trade_count
      /\ last_hour_reset' =
           IF TRADING_ENABLED THEN rl.last_hour_reset ELSE last_hour_reset
      /\ UNCHANGED <<unknown_buys, late_buys, trade_history, outsideHandlers>>

\* The awaited buy ends, and execute_trade_inline runs to its return.  At a
\* timeout wait_for cancels the future it awaits, not the thread of the
\* executor, in which buy() runs on.
LeaveTrade(h, outcome) ==
  /\ h \in in_flight
  /\ in_flight' = in_flight \ {h}
  /\ unknown_buys' = IF outcome = "timeout" THEN unknown_buys \cup {h.pool_id}
                     ELSE unknown_buys
  /\ UNCHANGED late_buys
  /\ hourly_trade_count' =
       IF outcome = "success" THEN hourly_trade_count + 1 ELSE hourly_trade_count
  /\ trade_history' =
       IF outcome = "success" THEN [trade_history EXCEPT ![h.pool_id] = 0]
       ELSE trade_history
  /\ UNCHANGED <<sem_waiting, last_hour_reset, outsideHandlers>>

\* The buy() of a timed-out submission returns in its thread: nothing of the
\* program reads what it returns.
TimedOutBuyEnds(pool_id, bought) ==
  /\ pool_id \in unknown_buys
  /\ unknown_buys' = unknown_buys \ {pool_id}
  /\ late_buys' = IF bought THEN late_buys \cup {pool_id} ELSE late_buys
  /\ UNCHANGED <<sem_waiting, in_flight, hourly_trade_count, last_hour_reset,
                 trade_history, outsideHandlers>>

NextHandlers ==
  \/ \E pool_id \in Pools, event \in TradeEvents, missed_tee_up \in BOOLEAN :
       EventArrives(pool_id, event, missed_tee_up)
  \/ \E h \in sem_waiting : EnterTrade(h)
  \/ \E h \in in_flight, outcome \in BuyOutcomes : LeaveTrade(h, outcome)
  \/ \E pool_id \in Pools, bought \in BOOLEAN : TimedOutBuyEnds(pool_id, bought)

SpecHandlers == Init /\ [][NextHandlers]_vars

\* The handlers at work in an hour that has seen no trade yet, or all but
\* one of the trades the hour allows, on pools of earlier events.
InitRace ==
  /\ now = 0
  /\ LedgerInit
  /\ DbInit
  /\ ListenerInit
  /\ rate_hour = 0
  /\ rate_tick = 0
  /\ hourly_trade_count \in {0, MAX_TRADES_PER_HOUR - 1}
  /\ last_hour_reset = rate_hour
  /\ trade_history = [q \in RatePools |-> COOLDOWN_SECONDS]
  /\ last_result = "none"
  /\ executed_in_hour = hourly_trade_count
  /\ tail_trades = 0
  /\ since_limit_hit = -1
  /\ utc_offset_ms = 0
  /\ BackendInit
  /\ CooldownInit
  /\ HandlersInit
  /\ live_trading = FALSE
  /\ MonitorsInit

SpecRace == InitRace /\ [][NextHandlers]_vars

\* ------------------------------------ the backend's trades and monitors
QueueItemShapes == {"pool_data", "pair"}

\* _start_pool_monitoring of the backend: the semaphore is taken and given
\* back inside the call; the monitor and its stats stay.
backend_start_pool_monitoring(pool_id, initial_price) ==
  IF IsMonitored(_active_monitors, pool_id) THEN
    [_active_monitors |-> _active_monitors, _pool_stats |-> _pool_stats,
     _monitor_semaphore |-> _monitor_semaphore]
  ELSE
    [_active_monitors |->
       _active_monitors \cup {[pool_id |-> pool_id, initial_price |-> initial_price,
                               elapsed |-> 0]},
     _pool_stats |-> _pool_stats \cup {pool_id},
     _monitor_semaphore |-> (_monitor_semaphore - 1) + 1]

\* trade_result of _process_trade_queue: the adapter's or the paper ledger's
backend_buy_result(pool_id, initial_price, outcome) ==
  IF UsesAdapter(live_trading)
  THEN LET a == AdapterResult(pool_id, "buy", initial_price,
                              backend_initial_buy_amount, outcome, now)
       IN  [status |-> a.status, trade |-> a.trade, portfolio |-> portfolio,
            position_updates |-> position_updates]
  ELSE LET b == execute_buy(portfolio, position_updates, pool_id, initial_price,
                            backend_initial_buy_amount, now)
       IN  [status |-> b.status, trade |-> b.trade, portfolio |-> b.portfolio,
            position_updates |-> b.position_updates]

\* One turn of _process_trade_queue on an item got from the queue, which is
\* unpacked as (pool_id, trade_data); a pool_data dict, which is what
\* _on_pool_ready and _wait_for_valid_price put, does not unpack and the
\* turn ends.
ProcessTradeBody(shape, pool_id, initial_price, outcome, m) ==
  LET r == backend_buy_result(pool_id, initial_price, outcome)
      db == backend_record_trade(db_trades, db_positions, r.trade)
  IN  /\ IF shape = "pair" /\ pool_id \notin _traded_pools THEN
           /\ adapter_calls' = IF UsesAdapter(live_trading)
                                 THEN adapter_calls \cup {[op |-> "buy", pool_id |-> pool_id]}
                                 ELSE adapter_calls
           /\ last_submission' =
                Submission("buy", pool_id, r.status, ~last_submission.flip)
           /\ portfolio' = r.portfolio
           /\ position_updates' = r.position_updates
           /\ IF Confirmed(r.status) THEN
                /\ _traded_pools' = _traded_pools \cup {pool_id}
                /\ _pending_pools' =
                     IF IsPending(_pending_pools, pool_id)
                     THEN PendingPut(_pending_pools,
                                     [PendingOf(_pending_pools, pool_id)
                                        EXCEPT !.initial_price = r.trade.price,
                                               !.price_received = TRUE])
                     ELSE _pending_pools
                /\ db_trades' = db.db_trades
                /\ db_positions' = db.db_positions
                /\ _active_monitors' = m._active_monitors
                /\ _pool_stats' = m._pool_stats
                /\ _monitor_semaphore' = m._monitor_semaphore
              ELSE UNCHANGED <<_traded_pools, _pending_pools, db_trades, db_positions,
                               _active_monitors, _pool_stats, _monitor_semaphore>>
         ELSE UNCHANGED <<adapter_calls, last_submission, portfolio,
                          position_updates, _traded_pools, _pending_pools, db_trades, db_positions, _active_monitors,
                          _pool_stats, _monitor_semaphore>>
      /\ UNCHANGED <<utc_offset_ms, price_waits, fresh_events, expired_pools,
                     priced_pools, db_pools, last_call, live_trading, hung_monitors,
                     sell_attempts, last_sell>>

\* The turn with the pool's lock free when _start_pool_monitoring asks for it.
ProcessTrade(shape, pool_id, initial_price, outcome) ==
  /\ ProcessTradeBody(shape, pool_id, initial_price, outcome,
                      backend_start_pool_monitoring(
                        pool_id,
                        backend_buy_result(pool_id, initial_price, outcome).trade.price))
  /\ UNCHANGED <<_trade_queue, outsideMonitors>>

\* One turn of the loop of _monitor_pool, the pool's lock taken: past
\* max_monitor_time it awaits _stop_pool_monitoring, which awaits the lock
\* this turn holds.
MonitorPoolTurn(pool_id) ==
  /\ IsMonitored(_active_monitors, pool_id)
  /\ pool_id \notin hung_monitors
  /\ hung_monitors' =
       IF TimeExceeded(MonitorOf(_active_monitors, pool_id).elapsed)
       THEN hung_monitors \cup {pool_id}
       ELSE hung_monitors
  /\ UNCHANGED <<live_trading, _active_monitors, _pool_stats, _traded_pools,
                 _monitor_semaphore, adapter_calls, sell_attempts, last_sell,
                 last_submission, ledgerVars, dbVars, backendVars, outsideMonitors>>

\* The loop of _monitor_pool finds its pool gone from _active_monitors and
\* breaks; the finally clause runs _stop_pool_monitoring.
MonitorTaskEnds(pool_id) ==
  /\ pool_id \in _pool_stats
  /\ ~IsMonitored(_active_monitors, pool_id)
  /\ pool_id \notin hung_monitors
  /\ _pool_stats' = _pool_stats \ {pool_id}
  /\ UNCHANGED <<live_trading, _active_monitors, _traded_pools, hung_monitors,
                 _monitor_semaphore, adapter_calls, sell_attempts, last_sell,
                 last_submission, ledgerVars, dbVars, backendVars, outsideMonitors>>

\* datetime.now() moves on for every monitor.
MonitorClock ==
  /\ \E mon \in _active_monitors : mon.elapsed < MaxMonitorTicks
  /\ _active_monitors' =
       {[mon EXCEPT !.elapsed = IF @ < MaxMonitorTicks THEN @ + 1 ELSE @] :
          mon \in _active_monitors}
  /\ UNCHANGED <<live_trading, _pool_stats, _traded_pools, hung_monitors,
                 _monitor_semaphore, adapter_calls, sell_attempts, last_sell,
                 last_submission, ledgerVars, dbVars, backendVars, outsideMonitors>>

NextMonitors ==
  \/ \E shape \in QueueItemShapes, pool_id \in MonitorPools,
        initial_price \in BuyPrices, outcome \in BuyOutcomes :
       ProcessTrade(shape, pool_id, initial_price, outcome)
  \/ \E pool_id \in MonitorPools, current_price \in MonitorPrices,
        outcome \in BuyOutcomes :
       BackendOnPoolUpdate(pool_id, current_price, outcome)
  \/ \E pool_id \in MonitorPools : MonitorPoolTurn(pool_id)
  \/ \E pool_id \in MonitorPools : MonitorTaskEnds(pool_id)
  \/ MonitorClock

\* TradeConfig.live_trading is read from the environment at start.
InitMonitors ==
  /\ now = 0
  /\ LedgerInit
  /\ DbInit
  /\ ListenerInit
  /\ rate_hour = 0
  /\ RateInit
  /\ utc_offset_ms = 0
  /\ BackendInit
  /\ CooldownInit
  /\ HandlersInit
  /\ live_trading \in BOOLEAN
  /\ MonitorsInit

SpecMonitors == InitMonitors /\ [][NextMonitors]_vars

\* ---------------------------------------------------------------------------
\* The backend's pool locks.  The steps are the runs of a task between two
\* suspensions: asyncio runs one task at a time and changes task only where a
\* task waits, which inside a pool's lock is the sleep of _monitor_pool and
\* the wait for a lock that is not free.
\* ---------------------------------------------------------------------------

TradeProcessor == "trade_processor"

\* A step, which asks for the pool's lock at most three times, has room for
\* the locks it may make.
LocksLeft(pool_id) == lock_count[pool_id] + 3 <= MaxLocks

\* What the lock protocol reads and writes.
LockState ==
  [locks |-> _pool_locks, count |-> lock_count, held |-> lock_held,
   waiters |-> lock_waiters, at |-> task_at, overlap |-> lock_overlap,
   stopped |-> stop_seen, monitors |-> _active_monitors, stats |-> _pool_stats]

SetLocks(st) ==
  /\ _pool_locks' = st.locks
  /\ lock_count' = st.count
  /\ lock_held' = st.held
  /\ lock_waiters' = st.waiters
  /\ task_at' = st.at
  /\ lock_overlap' = st.overlap
  /\ stop_seen' = st.stopped

\* await self._get_pool_lock(pool_id)
WithLock(st, pool_id) ==
  LET lock == _get_pool_lock(st.locks, st.count, pool_id)
  IN  [st EXCEPT !.locks[pool_id] = lock,
                 !.count[pool_id] = IF lock > @ THEN lock ELSE @]

\* A task runs inside the pool's critical section: it overlaps a task that
\* is suspended inside it.
MarkOverlap(st, task, pool_id) ==
  IF Inside(st.held, pool_id) \ {task} # {}
  THEN [st EXCEPT !.overlap = @ \cup {pool_id}]
  ELSE st

\* Task.cancel() of the pool's monitor task: a task not yet run never runs,
\* a suspended one gets CancelledError where it waits, the running one ends
\* as it would.
CancelMonitor(st, task, pool_id) ==
  LET mt == MonitorTask(pool_id)
  IN  IF task = mt THEN st
      ELSE IF st.at[mt] = "created" THEN [st EXCEPT !.at[mt] = "ended"]
      ELSE IF st.at[mt] \in {"sleep", "wait_tick", "wait_stop", "wait_stop_held"}
      THEN [st EXCEPT !.at[mt] = "cancelled",
                      !.waiters[pool_id] =
                        [lock \in Locks |-> SelectSeq(st.waiters[pool_id][lock],
                                                      LAMBDA w : w # mt)]]
      ELSE st

\* The body of _stop_pool_monitoring, the lock taken: the task cancelled,
\* the monitor, the stats and the lock of the pool deleted.
StopBody(st, task, pool_id, after) ==
  LET s0 == MarkOverlap(st, task, pool_id)
      s1 == CancelMonitor(s0, task, pool_id)
  IN  [s1 EXCEPT !.stopped = IF \E lock \in Locks : s1.waiters[pool_id][lock] # << >>
                             THEN @ \cup {pool_id} ELSE @,
                 !.monitors = MonitorsDel(@, pool_id),
                 !.stats = @ \ {pool_id},
                 !.locks[pool_id] = 0,
                 !.at[task] = after]

\* _stop_pool_monitoring called by a task that holds no lock of the pool.
EnterStop(st, task, pool_id, after) ==
  LET s1 == WithLock(st, pool_id)
      lock == s1.locks[pool_id]
  IN  IF CanAcquire(s1.held, s1.waiters, pool_id, lock)
      THEN StopBody(s1, task, pool_id, after)
      ELSE [s1 EXCEPT !.waiters[pool_id][lock] = Append(@, task),
                      !.at[task] = "wait_stop"]

\* The monitor leaves the lock it held through its stop and runs the
\* finally clause.
AfterHeldStop(st, task, pool_id) ==
  EnterStop([st EXCEPT !.held[pool_id] =
                         [lock \in Locks |-> IF @[lock] = task THEN NoTask ELSE @[lock]]],
            task, pool_id, "ended")

\* _stop_pool_monitoring called by _monitor_pool inside the pool's lock.
EnterStopHeld(st, task, pool_id) ==
  LET s1 == WithLock(st, pool_id)
      lock == s1.locks[pool_id]
  IN  IF CanAcquire(s1.held, s1.waiters, pool_id, lock)
      THEN AfterHeldStop(StopBody(s1, task, pool_id, "stopping"), task, pool_id)
      ELSE [s1 EXCEPT !.waiters[pool_id][lock] = Append(@, task),
                      !.at[task] = "wait_stop_held"]

\* The body of the loop of _monitor_pool, the lock taken: KeyError for a pool
\* no longer monitored, the stop past max_monitor_time, else the sleep of one
\* second with the lock held.
TickBody(st, task, pool_id, lock) ==
  LET s0 == MarkOverlap(st, task, pool_id)
  IN  IF ~IsMonitored(s0.monitors, pool_id)
      THEN EnterStop(s0, task, pool_id, "ended")
      ELSE IF TimeExceeded(MonitorOf(s0.monitors, pool_id).elapsed)
      THEN EnterStopHeld([s0 EXCEPT !.held[pool_id][lock] = task], task, pool_id)
      ELSE [s0 EXCEPT !.held[pool_id][lock] = task, !.at[task] = "sleep"]

\* The head of the loop of _monitor_pool.
MonitorLoop(st, task, pool_id) ==
  IF ~IsMonitored(st.monitors, pool_id)
  THEN EnterStop(st, task, pool_id, "ended")
  ELSE LET s1 == WithLock(st, pool_id)
           lock == s1.locks[pool_id]
       IN  IF CanAcquire(s1.held, s1.waiters, pool_id, lock)
           THEN TickBody(s1, task, pool_id, lock)
           ELSE [s1 EXCEPT !.waiters[pool_id][lock] = Append(@, task),
                           !.at[task] = "wait_tick"]

\* The body of _start_pool_monitoring, the lock taken; the log line that
\* formats the price ends it, and an exception there leads to the stop.
StartBody(st, task, pool_id, initial_price, raises) ==
  LET s0 == MarkOverlap(st, task, pool_id)
      s1 == [s0 EXCEPT !.stats = @ \cup {pool_id},
                       !.monitors = @ \cup {[pool_id |-> pool_id,
                                             initial_price |-> initial_price,
                                             elapsed |-> 0]},
                       !.at[MonitorTask(pool_id)] = "created",
                       !.at[task] = "idle"]
  IN  IF raises THEN EnterStop(s1, task, pool_id, "idle") ELSE s1

\* _start_pool_monitoring called by the trade processor.
EnterStart(st, task, pool_id, initial_price, raises) ==
  IF IsMonitored(st.monitors, pool_id) THEN st
  ELSE LET s1 == WithLock(st, pool_id)
           lock == s1.locks[pool_id]
       IN  IF CanAcquire(s1.held, s1.waiters, pool_id, lock)
           THEN StartBody(s1, task, pool_id, initial_price, raises)
           ELSE [s1 EXCEPT !.waiters[pool_id][lock] = Append(@, task),
                           !.at[task] = "wait_start"]

\* A price update of the pool is handed to a handler task: it runs the body
\* if the lock is free, else it waits in acquire.
LockedUpdate(task, pool_id, current_price, outcome) ==
  LET s1 == WithLock(LockState, pool_id)
      lock == s1.locks[pool_id]
  IN  /\ task_at[task] = "idle"
      /\ LocksLeft(pool_id)
      /\ IF CanAcquire(s1.held, s1.waiters, pool_id, lock)
         THEN /\ BackendUpdateBody(pool_id, current_price, outcome)
              /\ SetLocks(MarkOverlap(s1, task, pool_id))
         ELSE /\ SetLocks([s1 EXCEPT !.waiters[pool_id][lock] = Append(@, task),
                                     !.at[task] = "wait_update"])
              /\ UNCHANGED <<ledgerVars, dbVars, backendVars, monitorVars>>
      /\ UNCHANGED outsideLocks

\* One turn of _process_trade_queue for a pair; the monitoring starts if the
\* lock is free, else the trade processor waits in acquire.
LockedProcessTrade(pool_id, initial_price, outcome, raises) ==
  LET r == backend_buy_result(pool_id, initial_price, outcome)
      starts == pool_id \notin _traded_pools /\ Confirmed(r.status)
      s1 == IF starts
            THEN EnterStart(LockState, TradeProcessor, pool_id, r.trade.price, raises)
            ELSE LockState
  IN  /\ task_at[TradeProcessor] = "idle"
      /\ LocksLeft(pool_id)
      /\ ProcessTradeBody("pair", pool_id, initial_price, outcome,
                          [_active_monitors |-> s1.monitors, _pool_stats |-> s1.stats,
                           _monitor_semaphore |-> _monitor_semaphore])
      /\ SetLocks(s1)
      /\ UNCHANGED <<_trade_queue, outsideLocks>>

\* The first waiter of a free lock runs: it takes the lock and runs the body
\* it waited for.
WaiterResumes(pool_id, lock, current_price, outcome, raises) ==
  LET task == Head(lock_waiters[pool_id][lock])
      s1 == [LockState EXCEPT !.waiters[pool_id][lock] = Tail(@)]
      kind == task_at[task]
      s2 == CASE kind = "wait_tick" -> TickBody(s1, task, pool_id, lock)
               [] kind = "wait_stop" ->
                    StopBody(s1, task, pool_id,
                             IF task = TradeProcessor THEN "idle" ELSE "ended")
               [] kind = "wait_stop_held" ->
                    AfterHeldStop(StopBody(s1, task, pool_id, "stopping"), task, pool_id)
               [] kind = "wait_start" ->
                    StartBody(s1, task, pool_id,
                              backend_buy_result(pool_id, current_price, outcome).trade.price,
                              raises)
               [] OTHER -> [MarkOverlap(s1, task, pool_id) EXCEPT !.at[task] = "idle"]
  IN  /\ Woken(lock_held, lock_waiters, pool_id, lock)
      /\ LocksLeft(pool_id)
      /\ IF kind = "wait_update"
         THEN /\ BackendUpdateBody(pool_id, current_price, outcome)
              /\ SetLocks(s2)
         ELSE /\ SetLocks(s2)
              /\ _active_monitors' = s2.monitors
              /\ _pool_stats' = s2.stats
              /\ UNCHANGED <<live_trading, _traded_pools, hung_monitors,
                             _monitor_semaphore, adapter_calls, sell_attempts,
                             last_sell, last_submission, ledgerVars, dbVars,
                             backendVars>>
      /\ UNCHANGED outsideLocks

\* The monitor task runs: its first run, the run after its sleep, which
\* leaves the lock, or the run a cancellation gives it.
MonitorRuns(pool_id) ==
  LET task == MonitorTask(pool_id)
      left == [LockState EXCEPT !.held[pool_id] =
                 [lock \in Locks |-> IF @[lock] = task THEN NoTask ELSE @[lock]]]
      s2 == IF task_at[task] = "cancelled"
            THEN EnterStop(left, task, pool_id, "ended")
            ELSE MonitorLoop(left, task, pool_id)
  IN  /\ task_at[task] \in {"created", "sleep", "cancelled"}
      /\ LocksLeft(pool_id)
      /\ SetLocks(s2)
      /\ _active_monitors' = s2.monitors
      /\ _pool_stats' = s2.stats
      /\ UNCHANGED <<live_trading, _traded_pools, hung_monitors, _monitor_semaphore,
                     adapter_calls, sell_attempts, last_sell, last_submission,
                     ledgerVars, dbVars, backendVars, outsideLocks>>

NextLocks ==
  \/ \E task \in UpdateTasks, pool_id \in LockPools, current_price \in MonitorPrices,
        outcome \in BuyOutcomes :
       LockedUpdate(task, pool_id, current_price, outcome)
  \/ \E pool_id \in LockPools, initial_price \in BuyPrices, outcome \in BuyOutcomes,
        raises \in BOOLEAN :
       LockedProcessTrade(pool_id, initial_price, outcome, raises)
  \/ \E pool_id \in LockPools, lock \in Locks, current_price \in MonitorPrices,
        outcome \in BuyOutcomes, raises \in BOOLEAN :
       WaiterResumes(pool_id, lock, current_price, outcome, raises)
  \/ \E pool_id \in LockPools : MonitorRuns(pool_id)
  \/ MonitorClock

InitLocks ==
  /\ now = 0
  /\ LedgerInit
  /\ DbInit
  /\ ListenerInit
  /\ rate_hour = 0
  /\ RateInit
  /\ utc_offset_ms = 0
  /\ BackendInit
  /\ CooldownInit
  /\ HandlersInit
  /\ live_trading \in BOOLEAN
  /\ MonitorsInit

SpecLocks == InitLocks /\ [][NextLocks]_vars

\* The event loop runs every task that is ready: the monitor task of a pool
\* after its creation, its sleep or its cancellation, and the first waiter of
\* a lock that was released.
LoopRunsReady(pool_id) ==
  \/ MonitorRuns(pool_id)
  \/ \E lock \in Locks, current_price \in MonitorPrices, outcome \in BuyOutcomes,
        raises \in BOOLEAN :
       WaiterResumes(pool_id, lock, current_price, outcome, raises)

SpecLocksLive ==
  /\ InitLocks
  /\ [][NextLocks]_vars
  /\ \A pool_id \in LockPools :
       /\ WF_vars(MonitorRuns(pool_id))
       /\ WF_vars(LoopRunsReady(pool_id))

\* ---------------------------------------------------------------------------
\* The exits of the live listener and of the live backend, with their event
\* loops.  swap.execute_sell is a coroutine without an await: from the call of
\* the adapter's sell() to its return the event loop runs no other handler,
\* and the price updates that arrive meanwhile stay in the socket.
\* ---------------------------------------------------------------------------

\* Samples of a pool bought at 100: the listener's stop loss is hit at 85,
\* the backend's exit at 90.
ListenerSamples == {85, 100}

BackendSamples == {90, 100}

\* The timestamp the feed puts on a sample: the samples of the unchanged
\* price are the later ones, so that a sample of the fallen price that
\* follows one of them is a late sample, and a repeated sample a duplicate.
SampleStamp(price) == IF price = 100 THEN 2 ELSE 1

Sample(pool_id, price, stamp) ==
  [pool_id |-> pool_id, price |-> price, stamp |-> stamp]

\* An adapter whose sell suspends its caller: handlers run during the call.
AdapterSuspends(sells) == TRUE

\* The event loop is not inside a call of the adapter's sell.
LoopFree(sells) == sells = << >>

\* A price update reaches the listener's socket.
ListenerReceives(pool_id, price, stamp) ==
  /\ Len(socket_buffer) < MaxBuffered
  /\ socket_buffer' = Append(socket_buffer, Sample(pool_id, price, stamp))
  /\ UNCHANGED <<now, ledgerVars, dbVars, listenerVars, rateVars, backendVars,
                 cooldownVars, handlerVars, monitorVars, lockVars, processorVars, listener_sells,
                 backend_buffer, backend_sells, listener_stamps, backend_stamps>>

\* _on_new_pool of the live listener: the adapter's buy, the record of a
\* confirmed trade and the start of the monitoring.
LiveOnNewPool(pool_id, initial_price, outcome) ==
  LET st == store_pool(db_pools, pool_id, initial_price)
      a == AdapterResult(pool_id, "buy", initial_price, initial_buy_amount,
                         outcome, now)
      rec == _record_trade(db_trades, db_positions, a.trade)
      bought == st.ok /\ Confirmed(a.status)
  IN  /\ LoopFree(listener_sells)
      /\ db_pools' = st.rows
      /\ db_trades' = IF bought THEN rec.db_trades ELSE db_trades
      /\ db_positions' = IF bought THEN rec.db_positions ELSE db_positions
      /\ active_monitors' =
           IF bought THEN _start_pool_monitoring(active_monitors, pool_id, initial_price)
           ELSE active_monitors
      /\ streak' = IF bought /\ pool_id \notin DOMAIN active_monitors
                   THEN [q \in (DOMAIN streak) \cup {pool_id} |->
                           IF q = pool_id THEN 0 ELSE streak[q]]
                   ELSE streak
      /\ UNCHANGED <<now, ledgerVars, last_update, rateVars, backendVars,
                     cooldownVars, handlerVars, monitorVars, lockVars, processorVars, loopVars>>

\* _on_pool_update of the live listener, up to its call of the adapter's
\* sell: the handler takes the next update of the socket.
ListenerTakesUpdate ==
  LET sample == Head(socket_buffer)
      pool_id == sample.pool_id
      current_price == sample.price
  IN  /\ socket_buffer # << >>
      /\ LoopFree(listener_sells)
      /\ pool_id \in DOMAIN active_monitors
           => active_monitors[pool_id].consecutive_updates < MaxConsecutive
      /\ socket_buffer' = Tail(socket_buffer)
      /\ IF current_price = 0 \/ pool_id \notin DOMAIN active_monitors THEN
           UNCHANGED <<listenerVars, listener_sells, listener_stamps>>
         ELSE
           LET d == ExitDecision(active_monitors[pool_id], current_price)
               run == IF ProfitHit(current_price, active_monitors[pool_id].entry_price)
                      THEN streak[pool_id] + 1 ELSE 0
           IN  /\ active_monitors' = [active_monitors EXCEPT ![pool_id] = d.monitor]
               /\ streak' = [streak EXCEPT ![pool_id] = run]
               /\ last_update' = [pool_id |-> pool_id, price |-> current_price,
                                  reason |-> d.reason, sell |-> "", run |-> run]
               /\ listener_sells' = IF d.reason # ""
                                    THEN Append(listener_sells, sample)
                                    ELSE listener_sells
               /\ listener_stamps' = [listener_stamps EXCEPT ![pool_id] = sample.stamp]
      /\ UNCHANGED <<now, ledgerVars, dbVars, rateVars, backendVars, cooldownVars,
                     handlerVars, monitorVars, lockVars, processorVars, backend_buffer,
                     backend_sells, backend_stamps>>

\* The adapter's sell returns to the listener's _execute_sell and
\* _on_pool_update: a confirmed sell is recorded, the pool closed and its
\* monitor deleted.
ListenerSellReturns(outcome) ==
  LET sample == Head(listener_sells)
      pool_id == sample.pool_id
      a == AdapterResult(pool_id, "sell", sample.price, 0, outcome, now)
      rec == _record_trade(db_trades, db_positions, a.trade)
      sold == Confirmed(a.status) /\ pool_id \in DOMAIN active_monitors
  IN  /\ listener_sells # << >>
      /\ listener_sells' = Tail(listener_sells)
      /\ db_trades' = IF Confirmed(a.status) THEN rec.db_trades ELSE db_trades
      /\ db_positions' = IF Confirmed(a.status) THEN rec.db_positions ELSE db_positions
      /\ db_pools' = IF Confirmed(a.status)
                     THEN update_pool_status(db_pools, pool_id, "closed").rows
                     ELSE db_pools
      /\ active_monitors' = IF sold THEN Without(active_monitors, pool_id)
                            ELSE active_monitors
      /\ streak' = IF sold THEN Without(streak, pool_id) ELSE streak
      /\ last_update' = [last_update EXCEPT !.sell = a.status]
      /\ UNCHANGED <<now, ledgerVars, rateVars, backendVars, cooldownVars,
                     handlerVars, monitorVars, lockVars, processorVars, socket_buffer,
                     backend_buffer, backend_sells, listener_stamps,
                     backend_stamps>>

\* A price update reaches the backend's socket.
BackendReceives(pool_id, price, stamp) ==
  /\ Len(backend_buffer) < MaxBuffered
  /\ backend_buffer' = Append(backend_buffer, Sample(pool_id, price, stamp))
  /\ UNCHANGED <<now, ledgerVars, dbVars, listenerVars, rateVars, backendVars,
                 cooldownVars, handlerVars, monitorVars, lockVars, processorVars, socket_buffer,
                 listener_sells, backend_sells, listener_stamps, backend_stamps>>

\* One turn of the backend's trade processor.
BackendTrades(pool_id, initial_price, outcome) ==
  /\ LoopFree(backend_sells)
  /\ ProcessTrade("pair", pool_id, initial_price, outcome)

\* _on_pool_update of the live backend, up to its call of the adapter's
\* sell: the handler takes the next update of the socket; an update that
\* sells nothing is handled whole.
BackendTakesUpdate ==
  LET sample == Head(backend_buffer)
      sells == ExitTriggered(sample.pool_id, sample.price) /\ UsesAdapter(live_trading)
  IN  /\ backend_buffer # << >>
      /\ LoopFree(backend_sells)
      /\ backend_buffer' = Tail(backend_buffer)
      /\ backend_stamps' = IF ReachesStats(sample.pool_id, sample.price)
                            THEN [backend_stamps EXCEPT ![sample.pool_id] = sample.stamp]
                            ELSE backend_stamps
      /\ IF sells
         THEN /\ backend_sells' = Append(backend_sells, sample)
              /\ UNCHANGED <<ledgerVars, dbVars, backendVars, monitorVars>>
         ELSE /\ BackendUpdateBody(sample.pool_id, sample.price, "success")
              /\ UNCHANGED backend_sells
      /\ UNCHANGED <<now, listenerVars, rateVars, cooldownVars, handlerVars,
                     lockVars, processorVars, socket_buffer, listener_sells, listener_stamps>>

\* The adapter's sell returns to the backend's _execute_sell, and the
\* handler runs to its end.
BackendSellReturns(outcome) ==
  LET sample == Head(backend_sells)
  IN  /\ backend_sells # << >>
      /\ backend_sells' = Tail(backend_sells)
      /\ BackendUpdateBody(sample.pool_id, sample.price, outcome)
      /\ UNCHANGED <<now, listenerVars, rateVars, cooldownVars, handlerVars,
                     lockVars, processorVars, socket_buffer, listener_sells, backend_buffer,
                     listener_stamps, backend_stamps>>

NextSells ==
  \/ \E pool_id \in ListenerSellPools, price \in ListenerSamples :
       ListenerReceives(pool_id, price, SampleStamp(price))
  \/ \E pool_id \in ListenerSellPools, outcome \in BuyOutcomes :
       LiveOnNewPool(pool_id, 100, outcome)
  \/ ListenerTakesUpdate
  \/ \E outcome \in BuyOutcomes : ListenerSellReturns(outcome)
  \/ \E pool_id \in BackendSellPools, price \in BackendSamples :
       BackendReceives(pool_id, price, SampleStamp(price))
  \/ \E pool_id \in BackendSellPools, outcome \in BuyOutcomes :
       BackendTrades(pool_id, 100, outcome)
  \/ BackendTakesUpdate
  \/ \E outcome \in BuyOutcomes : BackendSellReturns(outcome)

\* Both programs started with LIVE_TRADING=true.
InitSells ==
  /\ now = 0
  /\ LedgerInit
  /\ DbInit
  /\ ListenerInit
  /\ rate_hour = 0
  /\ RateInit
  /\ utc_offset_ms = 0
  /\ BackendInit
  /\ CooldownInit
  /\ HandlersInit
  /\ live_trading = TRUE
  /\ MonitorsInit

SpecSells == InitSells /\ [][NextSells]_vars

\* ---------------------------------------------------------------------------
\* The backend's trade queue: what _on_pool_ready and _wait_for_valid_price put
\* on it and what the trade processor does with what it gets.
\* ---------------------------------------------------------------------------

\* pool_id, trade_data = item: an item unpacks if it has two elements.
UnpacksAsPair(item) == Cardinality(DOMAIN item) = 2

\* The pool an item of the queue is about.
ItemPool(item) == IF UnpacksAsPair(item) THEN item[1] ELSE item.pool_id

ItemPrice(item) ==
  IF UnpacksAsPair(item) THEN item[2].initial_price ELSE item.initial_price

\* await self._trade_queue.put(pool_data)
TradeQueued(pool_id, initial_price) ==
  /\ Len(_trade_queue) < MaxQueue
  /\ _trade_queue' = Append(_trade_queue,
                            [pool_data(pool_id, initial_price)
                               EXCEPT !.price_received = TRUE])
  /\ UNCHANGED <<now, ledgerVars, dbVars, listenerVars, rateVars, utc_offset_ms,
                 _pending_pools, price_waits, fresh_events, expired_pools,
                 priced_pools, cooldownVars, handlerVars, monitorVars, lockVars, processorVars, loopVars>>

\* How a turn of _process_trade_queue fails: the ValueError of the unpacking
\* of an item that is no pair.
TurnFailure(item) == IF UnpacksAsPair(item) THEN "none" ELSE "unpack"

\* A loop whose except clauses let the exception of a turn pass.
CatchesNothing(failure) == failure = "none"

\* `except Exception` around the buy and around the whole turn: whatever a
\* turn raises is logged, and the loop goes on.
Catches(failure) == TRUE

\* Where the trade processor stands after a turn.
AfterTurn(failure) == IF Catches(failure) THEN "idle" ELSE "ended"

\* One turn of _process_trade_queue: the item is got from the queue.
TradeProcessorTurn(outcome) ==
  LET item == Head(_trade_queue)
      shape == IF UnpacksAsPair(item) THEN "pair" ELSE "pool_data"
  IN  /\ _trade_queue # << >>
      /\ task_at[TradeProcessor] = "idle"
      /\ task_at' = [task_at EXCEPT ![TradeProcessor] = AfterTurn(TurnFailure(item))]
      /\ turn_failed' = (turn_failed \/ TurnFailure(item) # "none")
      /\ turn_after_failure' = (turn_after_failure \/ turn_failed)
      /\ _trade_queue' = Tail(_trade_queue)
      /\ ProcessTradeBody(shape, ItemPool(item), ItemPrice(item), outcome,
                          backend_start_pool_monitoring(
                            ItemPool(item),
                            backend_buy_result(ItemPool(item), ItemPrice(item),
                                               outcome).trade.price))
      /\ UNCHANGED <<now, listenerVars, rateVars, cooldownVars, handlerVars,
                     loopVars, _pool_locks, lock_count, lock_held, lock_waiters,
                     lock_overlap, stop_seen, recordVars, shutdownVars>>

NextQueue ==
  \/ \E pool_id \in MonitorPools, initial_price \in BuyPrices :
       TradeQueued(pool_id, initial_price)
  \/ \E outcome \in BuyOutcomes : TradeProcessorTurn(outcome)

InitQueue == InitMonitors

SpecQueue == InitQueue /\ [][NextQueue]_vars

\* ---------------------------------------------------------------------------
\* The record of the live backend's confirmed buys.  _process_trade_queue
\* hands a confirmed trade to a task of _record_trade, which runs once; the
\* database may refuse writes for a while.
\* ---------------------------------------------------------------------------

\* A buy of the live backend is confirmed: the pool is marked as traded, the
\* task of _record_trade is created and the monitoring is started.
BuyConfirmed(pool_id, initial_price) ==
  LET r == backend_buy_result(pool_id, initial_price, "success")
      m == backend_start_pool_monitoring(pool_id, r.trade.price)
  IN  /\ pool_id \notin _traded_pools
      /\ now < MaxClock
      /\ now' = now + 1
      /\ adapter_calls' = adapter_calls \cup {[op |-> "buy", pool_id |-> pool_id]}
      /\ last_submission' = Submission("buy", pool_id, r.status, ~last_submission.flip)
      /\ _traded_pools' = _traded_pools \cup {pool_id}
      /\ record_tasks' = record_tasks \cup {r.trade}
      /\ confirmed_trades' = confirmed_trades \cup {r.trade}
      /\ _active_monitors' = m._active_monitors
      /\ _pool_stats' = m._pool_stats
      /\ _monitor_semaphore' = m._monitor_semaphore
      /\ UNCHANGED <<ledgerVars, dbVars, listenerVars, rateVars, backendVars,
                     cooldownVars, handlerVars, live_trading, hung_monitors,
                     sell_attempts, last_sell, lockVars, loopVars, turnVars,
                     ledger_up, outages, shutdownVars>>

\* The task of _record_trade runs, from its first line to its return: a
\* store that fails is logged.
RecordTradeRuns(trade) ==
  LET rec == backend_record_trade(db_trades, db_positions, trade)
  IN  /\ trade \in record_tasks
      /\ record_tasks' = record_tasks \ {trade}
      /\ db_trades' = IF ledger_up THEN rec.db_trades ELSE db_trades
      /\ db_positions' = IF ledger_up THEN rec.db_positions ELSE db_positions
      /\ UNCHANGED <<now, ledgerVars, db_pools, listenerVars, rateVars,
                     backendVars, cooldownVars, handlerVars, monitorVars,
                     lockVars, loopVars, turnVars, ledger_up, outages,
                     confirmed_trades, shutdownVars>>

\* The database stops taking writes: its calls raise, and store_trade
\* returns False.
LedgerFails ==
  /\ ledger_up
  /\ outages < MaxOutages
  /\ ledger_up' = FALSE
  /\ outages' = outages + 1
  /\ UNCHANGED <<now, ledgerVars, dbVars, listenerVars, rateVars, backendVars,
                 cooldownVars, handlerVars, monitorVars, lockVars, loopVars,
                 turnVars, record_tasks, confirmed_trades, shutdownVars>>

\* The database takes writes again.
LedgerRecovers ==
  /\ ~ledger_up
  /\ ledger_up' = TRUE
  /\ UNCHANGED <<now, ledgerVars, dbVars, listenerVars, rateVars, backendVars,
                 cooldownVars, handlerVars, monitorVars, lockVars, loopVars,
                 turnVars, outages, record_tasks, confirmed_trades,
                 shutdownVars>>

RecordRuns == \E trade \in record_tasks : RecordTradeRuns(trade)

NextRecord ==
  \/ \E pool_id \in MonitorPools : BuyConfirmed(pool_id, 100)
  \/ RecordRuns
  \/ LedgerFails
  \/ LedgerRecovers

\* The backend started with LIVE_TRADING=true.
InitRecord == InitSells

\* The event loop runs every task that was created, and the database comes
\* back after each of its outages.
SpecRecord ==
  /\ InitRecord
  /\ [][NextRecord]_vars
  /\ WF_vars(RecordRuns)
  /\ WF_vars(LedgerRecovers)

\* ---------------------------------------------------------------------------
\* The shutdown of the live backend.  swap.execute_buy and swap.execute_sell
\* are coroutines without an await around the adapter's blocking call, so
\* shutdown(), like every other coroutine, runs only between two such calls.
\* ---------------------------------------------------------------------------

\* A shutdown that runs while a call of the adapter is awaited.
ShutdownAnyTime(buys, sells) == TRUE

\* shutdown() gets to run: the event loop is not inside a call of the adapter.
ShutdownCanRun(buys, sells) == LoopFree(buys) /\ LoopFree(sells)

\* One turn of _process_trade_queue for a pair, up to its call of the
\* adapter's buy.
BuyInvoked(pool_id, initial_price) ==
  /\ ~stopped
  /\ task_at[TradeProcessor] = "idle"
  /\ LoopFree(backend_buys)
  /\ LoopFree(backend_sells)
  /\ pool_id \notin _traded_pools
  /\ backend_buys' = Append(backend_buys, [pool_id |-> pool_id, price |-> initial_price])
  /\ UNCHANGED <<now, ledgerVars, dbVars, listenerVars, rateVars, backendVars,
                 cooldownVars, handlerVars, monitorVars, lockVars, loopVars,
                 turnVars, recordVars, stopped>>

\* The adapter's buy returns, and the turn runs to its end.
BuyReturns(outcome) ==
  LET call == Head(backend_buys)
  IN  /\ backend_buys # << >>
      /\ backend_buys' = Tail(backend_buys)
      /\ ProcessTradeBody("pair", call.pool_id, call.price, outcome,
                          backend_start_pool_monitoring(
                            call.pool_id,
                            backend_buy_result(call.pool_id, call.price,
                                               outcome).trade.price))
      /\ UNCHANGED <<now, _trade_queue, listenerVars, rateVars, cooldownVars,
                     handlerVars, lockVars, loopVars, turnVars, recordVars,
                     stopped>>

\* shutdown(): the trade processor is cancelled and awaited, which ends what
\* it awaits; the monitors are cleared (none of them has a 'task'); the
\* queue is not looked at.
Shutdown ==
  /\ ~stopped
  /\ ShutdownCanRun(backend_buys, backend_sells)
  /\ task_at' = [task_at EXCEPT ![TradeProcessor] = "cancelled"]
  /\ backend_buys' = << >>
  /\ _active_monitors' = {}
  /\ stopped' = TRUE
  /\ UNCHANGED <<now, ledgerVars, dbVars, listenerVars, rateVars, backendVars,
                 cooldownVars, handlerVars, live_trading, _pool_stats,
                 _traded_pools, hung_monitors, _monitor_semaphore, adapter_calls,
                 sell_attempts, last_sell, last_submission, _pool_locks,
                 lock_count, lock_held, lock_waiters, lock_overlap, stop_seen,
                 loopVars, turnVars, recordVars>>

NextShutdown ==
  \/ \E pool_id \in BackendSellPools : ~stopped /\ TradeQueued(pool_id, 100)
  \/ \E outcome \in BuyOutcomes :
       /\ ~stopped
       /\ LoopFree(backend_buys)
       /\ LoopFree(backend_sells)
       /\ TradeProcessorTurn(outcome)
  \/ \E pool_id \in BackendSellPools : BuyInvoked(pool_id, 100)
  \/ \E outcome \in BuyOutcomes : BuyReturns(outcome)
  \/ \E pool_id \in BackendSellPools, price \in BackendSamples :
       ~stopped /\ BackendReceives(pool_id, price, SampleStamp(price))
  \/ ~stopped /\ LoopFree(backend_buys) /\ BackendTakesUpdate
  \/ \E outcome \in BuyOutcomes : ~stopped /\ BackendSellReturns(outcome)
  \/ Shutdown

InitShutdown == InitSells

SpecShutdown == InitShutdown /\ [][NextShutdown]_vars


\* ------------------------------------------------ properties of the ledger

OpenPositions(p) == {q \in portfolio.positions : q.pool_id = p /\ q.status = "open"}

OpenRows(p) ==
  {i \in DOMAIN db_positions :
     db_positions[i].pool_id = p /\ db_positions[i].status = "open"}

ConfirmedBuys(p) ==
  {i \in DOMAIN portfolio.trades :
     /\ portfolio.trades[i].pool_id = p
     /\ portfolio.trades[i].trade_type = "buy"
     /\ portfolio.trades[i].status = "confirmed"}

\* C1: in every reachable state each pool has at most one open position, in
\* the ledger's positions and in the rows of table positions.
C1_AtMostOneOpenPerPool ==
  \A p \in Pools :
    /\ Cardinality(OpenPositions(p)) <= 1
    /\ Cardinality(OpenRows(p)) <= 1

\* C1 witness: a pool was bought twice and holds exactly one open position.
C1_BoughtTwiceOneOpen ==
  \E p \in Pools :
    /\ Cardinality(ConfirmedBuys(p)) >= 2
    /\ Cardinality(OpenPositions(p)) = 1

\* The balance adjustments applied under signature s: execute_buy and
\* execute_sell append one trade for each debit or credit they apply.
Adjustments(s) ==
  {i \in DOMAIN portfolio.trades : portfolio.trades[i].tx_signature = s}

\* C2: every confirmed trade's signature stands for exactly one balance
\* adjustment.
C2_AppliedExactlyOnce ==
  \A i \in DOMAIN portfolio.trades :
    portfolio.trades[i].status = "confirmed"
      => Cardinality(Adjustments(portfolio.trades[i].tx_signature)) = 1

\* C3: a sample at or below the stop loss on an open position makes
\* update_position_price request a sell in that same call.
C3_StopLossRequestsSell ==
  [][\A p \in Pools, price \in SamplePrices \ {0} :
       ( /\ PaperUpdate(p, price)
         /\ OpenPositions(p) # {}
         /\ PaperStopLoss(price, GetPosition(portfolio.positions, p).entry_price) )
       => last_call'.sell_requested]_vars

\* C9: a buy for a pool that already holds an open position is refused and
\* leaves the portfolio as it was.
C9_DuplicateBuyRefused ==
  [][\A p \in Pools, price \in BuyPrices, a \in BuyAmounts :
       (PaperBuy(p, price, a) /\ OpenPositions(p) # {})
       => (last_call'.status = "failed" /\ portfolio' = portfolio)]_vars

\* C10: the balance is never negative, and a buy that costs more than the
\* balance fails and leaves the portfolio as it was.
C10_NoOverdraft ==
  /\ [](portfolio.balance >= 0)
  /\ [][\A p \in Pools, price \in BuyPrices, a \in BuyAmounts :
          (PaperBuy(p, price, a) /\ a > portfolio.balance)
          => (last_call'.status = "failed" /\ portfolio' = portfolio)]_vars

\* C10 witness: the last buy was refused for lack of balance after earlier
\* buys had spent most of it.
C10_RefusedForBalance ==
  /\ last_call.op = "execute_buy"
  /\ last_call.error = "Insufficient balance"
  /\ portfolio.balance < initial_balance
  /\ portfolio.balance >= 0

\* ---------------------------------------------- properties of the listener

\* C4: a take-profit exit is requested on the sample that completes
\* consecutive_updates_required qualifying samples in a row, and on no
\* sample that has fewer qualifying samples in a row behind it.
C4_ExitOnNthSample ==
  /\ last_update.reason = "profit"
       => last_update.run >= consecutive_updates_required
  /\ (last_update.pool_id # "" /\ last_update.run = consecutive_updates_required)
       => last_update.reason = "profit"

\* C5: a sample below the profit threshold leaves the monitor's counter at 0,
\* and the counter never exceeds the qualifying samples received in a row.
C5_CounterResets ==
  \A p \in DOMAIN active_monitors :
    /\ (last_update.pool_id = p
        /\ ~ProfitHit(last_update.price, active_monitors[p].entry_price))
         => active_monitors[p].consecutive_updates = 0
    /\ active_monitors[p].consecutive_updates <= streak[p]

\* ------------------------------------------ properties of the rate limiter
\* last_result tells how the submission made at this instant ended; a
\* submission that is rejected, or whose adapter call fails, leaves the trades
\* executed and since_limit_hit as it found them, and one that succeeds adds
\* one trade.

\* The submission made at this instant got past check_rate_limit.
PassedRateLimit == last_result \in {"cooldown", "success", "timeout", "error"}

\* Trades already executed when that submission was made, out of `after`
\* executed by now.
FoundExecuted(after) == IF last_result = "success" THEN after - 1 ELSE after

\* The submission made at this instant reached the adapter.
AdapterCalled == last_result \in {"success", "timeout", "error"}

C7_AdmittedAfterAnHour ==
  last_result = "rate_limited" => since_limit_hit < TicksPerHour

\* ----------------------------------------------- properties of the backend

InPipeline(pool_id) ==
  \/ IsPending(_pending_pools, pool_id)
  \/ \E task \in price_waits : task.pool_id = pool_id
  \/ \E i \in DOMAIN _trade_queue : _trade_queue[i].pool_id = pool_id

\* C8: an event older than max_pool_age_ms never puts its pool in the pending
\* set, never starts a price wait for it and never queues it: a pool that is
\* pending, waited for or queued had an event no older than the maximum.
C8_OldEventNeverPending ==
  \A pool_id \in Pools : InPipeline(pool_id) => pool_id \in fresh_events

\* C13: a pool-discovered event for a pool that is already pending, waited for
\* or queued changes nothing: no pending entry, no price wait, no queue entry
\* and no stored pool is added or altered.
C13_DuplicateEventIsNoOp ==
  [][\A pool_id \in Pools, initial_price \in BuyPrices, true_age \in EventAges :
       (InPipeline(pool_id) /\ BackendOnNewPool(pool_id, initial_price, true_age))
         => UNCHANGED <<_pending_pools, price_waits, _trade_queue, db_pools>>]_vars

\* C14: a pool's status only moves forward: a pool that expired, its price
\* wait having timed out, is not pending again.
C14_ExpiredStaysOut ==
  \A pool_id \in expired_pools : ~IsPending(_pending_pools, pool_id)

\* ---------------------------------------------- properties of the cooldown

\* C11: a submission for a pool that arrives less than 300 seconds after a
\* successful buy of that pool does not reach the adapter.
C11_RejectedWithinCooldown ==
  (cd_result.result \in BuyOutcomes /\ cd_result.since # -1)
    => cd_result.since >= COOLDOWN_SECONDS * SubSecond

\* ---------------------------------------------- properties of the handlers

\* C12: no two buys of the same pool are in flight together.
C12_OneBuyInFlightPerPool ==
  \A g \in in_flight, h \in in_flight : g.pool_id = h.pool_id => g = h

C19_PaperModeNeverCallsAdapter == ~live_trading => adapter_calls = {}

\* Live trading is disabled, a buy was confirmed by the paper ledger and an
\* exit was attempted, and the adapter was never called.
C19_PaperEntryAndExit ==
  /\ ~live_trading
  /\ _traded_pools # {}
  /\ portfolio.trades # <<>>
  /\ sell_attempts # {}
  /\ adapter_calls = {}

\* ------------------------------------- properties of the ledger's sells
\* C17: after a confirmed paper buy on a pool, a full sell of the pool at a
\* positive price returns a confirmed sell, credits the balance with base
\* amount times price, and leaves the pool without a position.
C17_FullSellCloses ==
  [][\A p \in Pools, price \in SamplePrices \ {0} :
       (PaperSell(p, price) /\ OpenPositions(p) # {})
       => /\ last_call'.status = "confirmed"
          /\ ~HasPosition(portfolio'.positions, p)
          /\ portfolio'.balance =
               portfolio.balance
               + Quantize(GetPosition(portfolio.positions, p).base_amount * price,
                          DecScale)]_vars

\* C18: a full sell of an open position leaves, in the ledger, the closed
\* position with its realized P&L, the quote amount the sell received minus
\* the quote amount the position spent.
C18_FullSellRecordsPnl ==
  [][\A p \in Pools, price \in SamplePrices \ {0} :
       (PaperSell(p, price) /\ OpenPositions(p) # {})
       => \E q \in portfolio'.positions :
            /\ q.pool_id = p
            /\ q.status = "closed"
            /\ q.pnl = Quantize(q.base_amount * price, DecScale) - q.quote_amount]_vars

\* C20: a buy or a sell of the ledger that is not confirmed returns a result
\* with status failed and an error reason, never None.
C20_FailureIsStructured ==
  (last_call.op \in {"execute_buy", "execute_sell"} /\ last_call.status # "confirmed")
    => (last_call.status = "failed" /\ last_call.error # "")

\* ------------------------------ properties of the backend's side effects
SideEffects ==
  <<portfolio, position_updates, db_trades, db_positions, _traded_pools,
    _active_monitors, _pool_stats>>

\* C21: a buy or a sell whose result is not confirmed writes no trade and no
\* position, does not mark the pool as traded, and starts or stops no
\* monitoring.
C21_UnconfirmedNoSideEffect ==
  [][( /\ last_submission'.flip # last_submission.flip
       /\ last_submission'.status # "confirmed" )
     => UNCHANGED SideEffects]_vars

\* C21 witness: the adapter was called for a buy that was not confirmed and
\* the pool is neither traded nor monitored nor in the trades table, and the
\* last sell failed and left its pool monitored.
C21_FailedBuyAndFailedSell ==
  /\ \E call \in adapter_calls :
       /\ call.op = "buy"
       /\ call.pool_id \notin _traded_pools
       /\ ~IsMonitored(_active_monitors, call.pool_id)
       /\ \A row \in db_trades : row.pool_id # call.pool_id
  /\ last_submission.op = "sell"
  /\ last_submission.status = "failed"
  /\ IsMonitored(_active_monitors, last_submission.pool_id)

\* ------------------------------------------- properties of the price samples
\* The change of the sample lies strictly between the stop loss and the
\* profit threshold, both fractions of the entry price.
InsideThresholds(current_price, entry_price) ==
  /\ 10 * (current_price - entry_price) > (0 - BACKEND_STOP_LOSS_TENTHS) * entry_price
  /\ 10 * (current_price - entry_price) < BACKEND_PROFIT_TENTHS * entry_price

C23_NonPositiveSampleIgnored ==
  last_update.pool_id # "" => last_update.price > 0

\* ------------------------------------------ properties of the signatures
\* C24: any two distinct trades of the paper ledger carry distinct
\* transaction signatures.
C24_DistinctSignatures ==
  \A i \in DOMAIN portfolio.trades, j \in DOMAIN portfolio.trades :
    i # j => portfolio.trades[i].tx_signature # portfolio.trades[j].tx_signature

\* ------------------------------------- properties of the hourly counter
\* C25: the buys counted since the counter's last reset and the buys that
\* passed the limit check and are with the adapter, counted once for each
\* pool, never add up to more than MAX_TRADES_PER_HOUR.
C25_AdmittedWithinLimit ==
  hourly_trade_count + Cardinality({h.pool_id : h \in in_flight})
    <= MAX_TRADES_PER_HOUR


\* ---------------------------------------------------------------------------
\* Properties of the backend's pool locks (SpecLocks).
\* ---------------------------------------------------------------------------

\* C26: for each pool at most one task at a time is inside the pool's
\* critical section (update handling, monitor tick, start or stop of
\* monitoring): no body runs while another task is suspended inside, and no
\* two tasks are suspended inside, whatever the interleaving, a stop that
\* runs while other tasks wait for the pool's lock included.
C26_OneTaskInsidePerPool ==
  /\ lock_overlap = {}
  /\ \A pool_id \in LockPools : Cardinality(Inside(lock_held, pool_id)) <= 1

\* A stop ran while tasks waited for the pool's lock, the waiters have run
\* since, and a second lock has been made for the pool.
C26_StopWithWaitersThenNewLock ==
  \E pool_id \in stop_seen :
    /\ \A lock \in Locks : lock_waiters[pool_id][lock] = << >>
    /\ lock_count[pool_id] = 2
    /\ _pool_locks[pool_id] = 2


\* ---------------------------------------------------------------------------
\* Properties of the live exits (SpecSells).
\* ---------------------------------------------------------------------------

\* The sells in flight are for different pools.
OneInFlightPerPool(sells) ==
  \A i \in DOMAIN sells, j \in DOMAIN sells :
    i # j => sells[i].pool_id # sells[j].pool_id

\* C27: no second sell is invoked on the adapter for a pool while an earlier
\* sell for that pool awaits its result, in the listener and in the backend,
\* also when price updates that satisfy an exit condition arrive during the
\* wait.
C27_OneSellInFlightPerPool ==
  /\ OneInFlightPerPool(listener_sells)
  /\ OneInFlightPerPool(backend_sells)

\* A sell of each program awaits its result while two more updates that
\* satisfy an exit condition for its pool have arrived.
C27_ExitUpdatesDuringSell ==
  /\ listener_sells # << >>
  /\ Len(socket_buffer) = 2
  /\ \A i \in DOMAIN socket_buffer :
       /\ socket_buffer[i].pool_id = Head(listener_sells).pool_id
       /\ StopLossHit(socket_buffer[i].price,
                      active_monitors[socket_buffer[i].pool_id].entry_price)
  /\ backend_sells # << >>
  /\ Len(backend_buffer) = 2
  /\ \A i \in DOMAIN backend_buffer :
       /\ backend_buffer[i].pool_id = Head(backend_sells).pool_id
       /\ ExitTriggered(backend_buffer[i].pool_id, backend_buffer[i].price)


\* ---------------------------------------------------------------------------
\* Properties of the backend's trade queue (SpecQueue).
\* ---------------------------------------------------------------------------

C29_PricedPendingIsRecorded ==
  \A pool_id \in priced_pools :
    IsPending(_pending_pools, pool_id)
      => /\ PendingOf(_pending_pools, pool_id).price_received
         /\ PendingOf(_pending_pools, pool_id).initial_price > 0


\* ---------------------------------------------------------------------------
\* The order of the samples (SpecSells).
\* ---------------------------------------------------------------------------

\* C30: a sample whose timestamp is not newer than that of the pool's last
\* processed sample is dropped: the listener's monitor keeps its last price
\* and its counter of consecutive updates, and neither program invokes a sell.
C30_StaleSampleDropped ==
  [][/\ ( /\ Len(socket_buffer') < Len(socket_buffer)
          /\ Head(socket_buffer).stamp <= listener_stamps[Head(socket_buffer).pool_id] )
          => UNCHANGED <<active_monitors, streak, listener_sells>>
     /\ ( /\ Len(backend_buffer') < Len(backend_buffer)
          /\ Head(backend_buffer).stamp <= backend_stamps[Head(backend_buffer).pool_id] )
          => UNCHANGED <<backend_sells>>]_vars

C32_NoBuyAfterTimeout ==
  [][\A h \in in_flight' \ in_flight :
       h.pool_id \notin unknown_buys \cup late_buys]_vars

C34_StartedCallsReturn ==
  [][/\ (backend_buys # << >> /\ backend_buys' = << >>)
          => /\ last_submission'.op = "buy"
             /\ last_submission'.pool_id = Head(backend_buys).pool_id
             /\ last_submission'.flip # last_submission.flip
     /\ (Len(backend_sells') < Len(backend_sells))
          => /\ last_submission'.op = "sell"
             /\ last_submission'.pool_id = Head(backend_sells).pool_id
             /\ last_submission'.flip # last_submission.flip
     /\ stopped' => (backend_buys' = << >> /\ backend_sells' = << >>)]_vars

\* The backend was shut down after a buy and a sell that it had started.
C34_ShutDownAfterBuyAndSell ==
  /\ stopped
  /\ [op |-> "buy", pool_id |-> "M1"] \in adapter_calls
  /\ [op |-> "sell", pool_id |-> "M1"] \in adapter_calls

C36_MonitorRemovedOnlyByExit ==
  [][\A pool_id \in DOMAIN active_monitors :
       pool_id \notin DOMAIN active_monitors'
         => /\ last_update'.pool_id = pool_id
            /\ last_update'.reason # ""
            /\ last_update'.sell = "confirmed"]_vars

C38_SaveKeepsNumbers ==
  \A q \in portfolio.positions : q.num_type = "Decimal"

\* --------------------------------------------- properties of a failed buy
\* C39: in every state the ledger reaches, a buy whose cost is above the
\* balance or whose price is zero returns status failed and leaves the
\* balance, the positions, the trade list and the update counters as they
\* were.
C39_FailedBuyChangesNothing ==
  \A pool_id \in Pools, price \in BuyPrices, sol_amount \in BuyAmounts :
    InsufficientBalance(sol_amount, portfolio.balance) \/ price = 0
      => LET r == execute_buy(portfolio, position_updates, pool_id, price,
                              sol_amount, now)
         IN  /\ r.status = "failed"
             /\ r.portfolio = portfolio
             /\ r.position_updates = position_updates

\* A buy has just failed on a price of zero, with a position open, a trade
\* on the list and a counter kept, and a balance that the cost of another
\* buy exceeds.
C39_BuyFailedOnOpenLedger ==
  /\ last_call.op = "execute_buy"
  /\ last_call.status = "failed"
  /\ last_call.error = "DivisionByZero"
  /\ portfolio.positions # {}
  /\ portfolio.trades # << >>
  /\ DOMAIN position_updates # {}
  /\ \E sol_amount \in BuyAmounts : InsufficientBalance(sol_amount, portfolio.balance)

====
